---- MODULE Spec2Model ----
(***************************************************************************)
(* Model of the continuous fine-tuning subsystem of qwglm:                 *)
(*   - TrainingQueue      (src/lib/finetuning/training-queue.ts)           *)
(*   - WeightUpdater      (src/lib/finetuning/weight-updater.ts)           *)
(*   - BatchManager       (src/unnamed/part_001)                           *)
(*   - TrainingScheduler  (src/lib/finetuning/training-scheduler.ts)       *)
(*   - TrainingEngine     (src/lib/finetuning/training-engine.ts)          *)
(*   - LoRAAdapter        (src/lib/finetuning/lora.ts)                     *)
(*   - FastLearner        (src/unnamed/part_002)                           *)
(*   - ChatLogger         (src/lib/finetuning/chat-logger.ts)              *)
(*   - DataCollector      (src/lib/finetuning/data-collector.ts)           *)
(*   - SimulatedNeuralNetwork                                              *)
(*                  (src/lib/finetuning/importers/website-importer.ts)     *)
(* Several specifications share the module: SpecQueue drives the queue's   *)
(* public operations, SpecWeights the weight updater's, SpecScheduler the  *)
(* scheduler, the engine's train() loop and the host around them,          *)
(* SpecBursts the scheduler's bursts alone, SpecLora the adapter's,        *)
(* SpecResources the lookups by name of the updater and the adapter,       *)
(* SpecLearner the fast learner's, SpecEngine the construction of engines  *)
(* and their trainBatch calls, SpecSchedule the trainBatch calls of        *)
(* engines over all learning-rate schedules, SpecBuffers the weight        *)
(* updater with its buffers followed by identity, SpecCollector the chat   *)
(* collection, SpecNetwork the spiking network, and SpecDrain the started  *)
(* scheduler on a filled queue under fair scheduling of its checks.        *)
(***************************************************************************)
EXTENDS Integers, Sequences, FiniteSets, TLC

VARIABLES
  \* TrainingQueue
  queue,          \* TrainingExample[] (training-queue.ts:26)
  processedIds,   \* Set<string>       (training-queue.ts:27)
  returned,       \* the value returned by the most recent queue call
  lastCall,       \* the most recent queue call: its name and arguments
  \* WeightUpdater
  currentWeights, \* ModelWeights: name -> Float32Array (weight-updater.ts:26)
  snapshots,      \* WeightSnapshot[]                   (weight-updater.ts:27)
  config,         \* UpdateConfig                       (weight-updater.ts:28)
  updateCount,    \* number                             (weight-updater.ts:29)
  lastMetrics,    \* WeightSnapshot['metrics'] or undefined (weight-updater.ts:30)
  lastUpdaterCall,\* the most recent WeightUpdater call: its name and result
  mark,           \* the weights at the host's latest createSnapshot() call, and
                  \* whether the updater has taken a snapshot of its own since
  \* TrainingScheduler
  isScheduled,         \* training-scheduler.ts:25
  isTrainingActive,    \* training-scheduler.ts:26
  lastTrainingTime,    \* training-scheduler.ts:28
  trainingCount,       \* training-scheduler.ts:29
  inferenceInProgress, \* training-scheduler.ts:30
  pendingChecks,  \* idle callbacks / timeouts requested and not yet run
  burst,          \* the performTraining call in progress, if any
  \* TrainingEngine
  isTraining,     \* training-engine.ts:55
  enableFastLearning, \* TrainingConfig.enableFastLearning
  runs,           \* the trainBatch call of each caller: none, running,
                  \* resolved or rejected
  trainLoop,      \* the train(numSteps) call in progress, if any
  \* the host
  now,            \* Date.now()
  lastBurst,      \* the most recent burst to end: Date.now() at its end,
                  \* whether it called createSnapshot and rollback, and
                  \* its outcome ("empty", "resolved" or "rejected")
  \* LoRAAdapter
  layers,         \* Map<string, LoRALayer> (lora.ts:41)
  lastLoraCall,   \* the most recent adapter call, its arguments and result
  \* FastLearner
  episodicMemory, \* EpisodicMemory[] (part_002:32)
  hebbianCalls,   \* the spiking network, as the number of hebbianLearning
                  \* calls it has received (part_002:33)
  lastLearn,      \* the most recent learnFast call and what it returned
  \* TrainingEngine, one trainBatch call at a time
  engine,         \* config.mode, config.learningRate, config.warmupSteps,
                  \* config.maxSteps, whether loraAdapter is defined, step,
                  \* metrics and fastLearningStats (training-engine.ts:43-60)
  batchCall,      \* the trainBatch call that awaits trainExample, if any
  lastEngineCall, \* the most recent constructor, trainBatch or train call
                  \* to end, and how it ended
  tally,          \* the number of examples given to the trainBatch calls
                  \* that resolved since construction, and whether a
                  \* trainBatch call rejected
  \* WeightUpdater, its Float32Array buffers by identity
  buffers,        \* the contents of every buffer
  weightRefs,     \* currentWeights as a Map of buffers (weight-updater.ts:26)
  snapshotRefs,   \* snapshots, their weights as Maps of buffers
                  \* (weight-updater.ts:27)
  \* ChatLogger and DataCollector
  conversationHistory, \* Message[] (chat-logger.ts:16)
  collectIntervalId,   \* whether the interval timer of startAutoCollect is
                       \* set (data-collector.ts:25)
  \* SimulatedNeuralNetwork
  neurons,        \* Neuron[] (website-importer.ts:880)
  timeStep,       \* (website-importer.ts:882)
  forwardCall,    \* the turns that a forward call has left in its
                  \* simulation loop, and the length of its input
  lastSpikes,     \* the neurons that spiked in the latest updateNeurons
  networkOutput,  \* the value returned by the latest forward call
  learningCalls   \* the hebbianLearning and pruneConnections calls so far

queueVars == <<queue, processedIds, returned, lastCall>>

updaterVars ==
  <<currentWeights, snapshots, config, updateCount, lastMetrics,
    lastUpdaterCall, mark>>

schedulerVars ==
  <<isScheduled, isTrainingActive, lastTrainingTime, trainingCount,
    inferenceInProgress, pendingChecks, burst, isTraining,
    enableFastLearning, runs, trainLoop, now, lastBurst>>

loraVars == <<layers, lastLoraCall>>

learnerVars == <<episodicMemory, hebbianCalls, lastLearn>>

engineVars == <<engine, batchCall, lastEngineCall, tally>>

bufferVars == <<buffers, weightRefs, snapshotRefs>>

collectorVars == <<conversationHistory, collectIntervalId>>

\* the variables of the components that the weight updater does not reach

networkVars ==
  <<neurons, timeStep, forwardCall, lastSpikes, networkOutput,
    learningCalls>>

apartVars == <<collectorVars, networkVars>>

\* the variables of the components that stand beside the training loop
sideVars == <<buffers, weightRefs, snapshotRefs, apartVars>>

vars ==
  <<queue, processedIds, returned, lastCall,
    currentWeights, snapshots, config, updateCount, lastMetrics,
    lastUpdaterCall, mark,
    isScheduled, isTrainingActive, lastTrainingTime, trainingCount,
    inferenceInProgress, pendingChecks, burst, isTraining,
    enableFastLearning, runs, trainLoop, now, lastBurst,
    layers, lastLoraCall,
    episodicMemory, hebbianCalls, lastLearn,
    engine, batchCall, lastEngineCall, tally,
    buffers, weightRefs, snapshotRefs,
    conversationHistory, collectIntervalId,
    neurons, timeStep, forwardCall, lastSpikes, networkOutput,
    learningCalls>>

----------------------------------------------------------------------------
(* Bounds of the model *)

\* example ids are 1..MaxId
MaxId == 3
\* example timestamps are 1..MaxTime
MaxTime == 2
\* getBatch sizes are 0..MaxBatch
MaxBatch == 3
\* weight values stay within -MaxWeight..MaxWeight
MaxWeight == 2
\* applyUpdate and replaceWeight are called while updateCount < MaxUpdates
MaxUpdates == 4
\* the clock advances MaxTicks times
MaxTicks == 1
\* at most MaxPending scheduler checks are pending
MaxPending == 2
\* bursts start while trainingCount < MaxTrainingCount
MaxTrainingCount == 3
\* train(numSteps) is called with numSteps in 1..MaxSteps
MaxSteps == 1
\* forward is called while its simulation ends by the time step MaxTimeStep
MaxTimeStep == 10
\* hebbianLearning and pruneConnections are called MaxLearningCalls times
MaxLearningCalls == 3
\* chat messages have the ids 1..MaxMessageId
MaxMessageId == 2
\* LoRA layers have 1..MaxFeatures input and output features
MaxFeatures == 2
\* backward is called while the finite gradients stay within
\* -MaxGrad..MaxGrad
MaxGrad == 4
\* updateParameters is called while a layer has had fewer than MaxAdamSteps
\* Adam updates
MaxAdamSteps == 1
\* learnFast stores a new memory at most MaxLearned times
MaxLearned == 4
\* a memory is accessed at most MaxAccess times
MaxAccess == 3
\* trainBatch is called while the engine's step is below MaxEngineSteps
MaxEngineSteps == 3
\* warmupSteps and maxSteps are 0..MaxScheduleSteps
MaxScheduleSteps == 3

----------------------------------------------------------------------------
(* TrainingQueue *)

\* enum TrainingPriority
LOW == 1
MEDIUM == 2
HIGH == 3
TrainingPriority == {LOW, MEDIUM, HIGH}

\* maxQueueSize is 10000 in the source; the model runs the same code with a
\* capacity that the bounded runs can fill.
maxQueueSize == 2

\* default of filterByQuality's minLength
DefaultMinLength == 10

\* An example's id names its content (chat_<msg>_<msg>, text_para_<doc>_<n>,
\* ...), so the examples of one id carry the same texts. The texts are kept
\* by their trimmed lengths, which is all the queue reads of them: the input
\* of id 1 is one character short of the default threshold, every other
\* text is at it.
inputLenOf(id) == IF id = 1 THEN DefaultMinLength - 1 ELSE DefaultMinLength

\* interface TrainingExample
TrainingExample ==
  {[id |-> i, priority |-> p, timestamp |-> t,
    inputLen |-> inputLenOf(i), outputLen |-> DefaultMinLength] :
     i \in 1..MaxId, p \in TrainingPriority, t \in 1..MaxTime}

Min(a, b) == IF a < b THEN a ELSE b
Max(a, b) == IF a > b THEN a ELSE b

\* Array.prototype.slice(start, end) on a sequence, with JavaScript's
\* handling of negative and out-of-range indices.
slice(s, start, end) ==
  LET n  == Len(s)
      k  == IF start < 0 THEN Max(n + start, 0) ELSE Min(start, n)
      fe == IF end < 0 THEN Max(n + end, 0) ELSE Min(end, n)
  IN  IF fe <= k THEN << >> ELSE SubSeq(s, k + 1, fe)

\* the comparator without its timestamp tie-break
compareNoTieBreak(a, b) == b.priority - a.priority

\* the comparator of sortByPriority: negative when a sorts before b
compare(a, b) ==
  IF a.priority # b.priority THEN b.priority - a.priority
  ELSE b.timestamp - a.timestamp

\* one step of a stable sort: x goes before the first element that the
\* comparator puts after it
RECURSIVE insertSorted(_, _)
insertSorted(s, x) ==
  IF s = << >> THEN <<x>>
  ELSE IF compare(Head(s), x) > 0 THEN <<x>> \o s
       ELSE <<Head(s)>> \o insertSorted(Tail(s), x)

\* Array.prototype.sort with the comparator (stable since ES2019)
RECURSIVE sortByPriority(_)
sortByPriority(s) ==
  IF s = << >> THEN << >>
  ELSE insertSorted(sortByPriority(SubSeq(s, 1, Len(s) - 1)), s[Len(s)])

ids(s) == {s[i].id : i \in 1..Len(s)}

\* a record of a call on the queue: add's example id, getBatch's size,
\* removeBatch's ids
Call(op, id, size, idSet) == [op |-> op, id |-> id, size |-> size, ids |-> idSet]

\* add(example) without the eviction at capacity
addNoEviction(q, p, example) ==
  IF example.id \in p THEN [queue |-> q, processedIds |-> p]
  ELSE [queue |-> sortByPriority(Append(q, example)), processedIds |-> p]

\* the queue and processed-id set after add(example), from (q, p)
addResult(q, p, example) ==
  IF example.id \in p THEN [queue |-> q, processedIds |-> p]
  ELSE LET full    == Len(q) >= maxQueueSize
           removed == IF full /\ q # << >> THEN {Head(q).id} ELSE {}
           q1      == IF full THEN Tail(q) ELSE q
       IN  [queue |-> sortByPriority(Append(q1, example)),
            processedIds |-> p \ removed]

\* examples.forEach((ex) => this.add(ex))
RECURSIVE addBatchResult(_, _, _)
addBatchResult(q, p, examples) ==
  IF examples = << >> THEN [queue |-> q, processedIds |-> p]
  ELSE LET r == addResult(q, p, Head(examples))
       IN  addBatchResult(r.queue, r.processedIds, Tail(examples))

getBatch(q, size) == slice(q, 0, size)

\* the receiver of Array.prototype.splice(start, end - start): the elements
\* returned are removed from it
spliceReceiver(q, start, end) ==
  [i \in 1..(Len(q) - Len(slice(q, start, end))) |->
     IF i <= start THEN q[i] ELSE q[i + Len(slice(q, start, end))]]

\* the receiver of Array.prototype.slice(start, end): slice copies, the
\* array it is called on keeps its elements
sliceReceiver(q, start, end) == q

\* removeBatch (Array.prototype.filter is SelectSeq) that forgets to mark the ids processed
removeBatchNoMark(q, p, idSeq) ==
  LET idSet == {idSeq[i] : i \in 1..Len(idSeq)}
      keep(ex) == ex.id \notin idSet
  IN  [queue |-> SelectSeq(q, keep), processedIds |-> p]

removeBatchResult(q, p, idSeq) ==
  LET idSet == {idSeq[i] : i \in 1..Len(idSeq)}
      keep(ex) == ex.id \notin idSet
  IN  [queue |-> SelectSeq(q, keep), processedIds |-> p \cup idSet]

filterByQualityResult(q, minLength) ==
  LET keep(ex) == ex.inputLen >= minLength /\ ex.outputLen >= minLength
  IN  SelectSeq(q, keep)

add(example) ==
  /\ queue' = addResult(queue, processedIds, example).queue
  /\ processedIds' = addResult(queue, processedIds, example).processedIds
  /\ returned' = << >>
  /\ lastCall' = Call("add", example.id, 0, {})

\* addBatch(examples)
addBatch(examples) ==
  /\ queue' = addBatchResult(queue, processedIds, examples).queue
  /\ processedIds' = addBatchResult(queue, processedIds, examples).processedIds
  /\ returned' = << >>
  /\ lastCall' = Call("addBatch", 0, 0, {})

getBatchCall(size) ==
  /\ returned' = getBatch(queue, size)
  /\ queue' = sliceReceiver(queue, 0, size)
  /\ lastCall' = Call("getBatch", 0, size, {})
  /\ UNCHANGED processedIds

removeBatch(idSeq) ==
  /\ queue' = removeBatchResult(queue, processedIds, idSeq).queue
  /\ processedIds' = removeBatchResult(queue, processedIds, idSeq).processedIds
  /\ returned' = << >>
  /\ lastCall' = Call("removeBatch", 0, 0, {idSeq[i] : i \in 1..Len(idSeq)})

clear ==
  /\ queue' = << >>
  /\ processedIds' = {}
  /\ returned' = << >>
  /\ lastCall' = Call("clear", 0, 0, {})

filterByQuality(minLength) ==
  /\ queue' = filterByQualityResult(queue, minLength)
  /\ returned' = << >>
  /\ lastCall' = Call("filterByQuality", 0, 0, {})
  /\ UNCHANGED processedIds

\* id lists handed to removeBatch: of length 0..2 over the ids
IdSeqs == {<< >>} \cup {<<i>> : i \in 1..MaxId}
            \cup {<<i, j>> : i \in 1..MaxId, j \in 1..MaxId}

\* batches handed to addBatch: the examples of one import have priority
\* MEDIUM and share their timestamp
Batches ==
  {<< >>} \cup {<<e, [e EXCEPT !.id = j, !.inputLen = inputLenOf(j)]>> :
                 e \in {x \in TrainingExample : x.priority = MEDIUM},
                 j \in 1..MaxId}

----------------------------------------------------------------------------
(* WeightUpdater *)

\* The weight store holds one tensor, "w", of two elements; "x" names no
\* weight. Values are integers: every update of the model adds or copies
\* integers, which Float32Array holds exactly.
WeightNames == {"w"}
UnknownName == "x"
initialWeights == [n \in WeightNames |-> <<1, 2>>]

\* the configuration the updater is constructed with: the source's defaults
\* are snapshotInterval 10 and maxSnapshots 5; the model takes a snapshot
\* every second update and keeps two.
snapshotInterval == 2
maxSnapshots == 2
\* metrics?: absent, or a loss with an optional accuracy (in percent)
NoAccuracy == -1
NoMetrics == [loss |-> -1, accuracy |-> NoAccuracy]
\* the metrics the host passes to createSnapshot
Metrics == {NoMetrics, [loss |-> 1, accuracy |-> 100]}
\* the metrics the host passes to shouldRollback
CurrentMetrics ==
  {NoMetrics} \cup {[loss |-> 2, accuracy |-> NoAccuracy]}
    \cup {[loss |-> 1, accuracy |-> a] : a \in {0, 50, 100}}

\* rollbackThreshold 0.2, in percent
rollbackThresholdPct == 20
initialConfig ==
  [snapshotInterval |-> snapshotInterval, maxSnapshots |-> maxSnapshots,
   rollbackThresholdPct |-> rollbackThresholdPct]

\* JavaScript's truthiness of an optional number: undefined and 0 are falsy
truthy(x) == x # NoAccuracy /\ x # 0

\* shouldRollback(currentMetrics); `last` is this.lastMetrics
shouldRollback(last, cfg, currentMetrics) ==
  IF last = NoMetrics \/ currentMetrics = NoMetrics THEN FALSE
  ELSE IF currentMetrics.loss * 100 > last.loss * (100 + cfg.rollbackThresholdPct)
       THEN TRUE
  ELSE IF truthy(currentMetrics.accuracy) /\ truthy(last.accuracy)
       THEN (last.accuracy - currentMetrics.accuracy) * 100
              > cfg.rollbackThresholdPct * last.accuracy
  ELSE FALSE

\* snapshotIndex?: absent
NoIndex == -2

InRange(w) == \A i \in 1..Len(w) : w[i] >= -MaxWeight /\ w[i] <= MaxWeight

\* deltas and replacement weights the host passes
Deltas == {<<1, 1>>, <<-1, -1>>}
NewWeights == {<<0, 0>>}
Alphas == {1}

\* a record of a call on the updater: its name, its result, for rollback()
\* whether it follows a createSnapshot() of the host and a change of the
\* weights since, and its argument (rollback's index, shouldRollback's
\* metrics)
UpdaterCall(op, ok, marked, arg) ==
  [op |-> op, ok |-> ok, marked |-> marked, arg |-> arg]

\* createSnapshot(metrics) on the log `snaps` with the weights `w`: push a
\* deep copy, drop the oldest past maxSnapshots
createSnapshotResult(snaps, w, cfg, metrics) ==
  LET pushed == Append(snaps, [weights |-> w, metrics |-> metrics])
  IN  IF Len(pushed) > cfg.maxSnapshots THEN Tail(pushed) ELSE pushed

\* the state of the updater after applyUpdate(weightName, delta, alpha)
applyUpdateResult(st, weightName, delta, alpha) ==
  IF weightName \notin DOMAIN st.currentWeights THEN st
  ELSE LET cur == st.currentWeights[weightName]
           w1  == [st.currentWeights EXCEPT
                     ![weightName] = [i \in 1..Len(cur) |-> cur[i] + alpha * delta[i]]]
           n1  == st.updateCount + 1
           snap == n1 % st.config.snapshotInterval = 0
       IN  [st EXCEPT
              !.currentWeights = w1,
              !.updateCount = n1,
              !.snapshots = IF snap
                            THEN createSnapshotResult(st.snapshots, w1, st.config, NoMetrics)
                            ELSE @,
              !.lastMetrics = IF snap THEN NoMetrics ELSE @]

\* for (const [name, delta] of updates) this.applyUpdate(name, delta, alpha)
RECURSIVE applyBatchUpdateResult(_, _, _)
applyBatchUpdateResult(st, updates, alpha) ==
  IF updates = << >> THEN st
  ELSE applyBatchUpdateResult(
         applyUpdateResult(st, Head(updates)[1], Head(updates)[2], alpha),
         Tail(updates), alpha)

\* rollback targeting the oldest snapshot when no index is given
oldestIndex(snaps, snapshotIndex) ==
  IF snapshotIndex # NoIndex THEN snapshotIndex ELSE 0

\* rollback's targetIndex (0-based)
targetIndex(snaps, snapshotIndex) ==
  IF snapshotIndex # NoIndex THEN snapshotIndex ELSE Len(snaps) - 1

\* rollback's guards with an index test that also turns index 0 away
rollbackOkFromOne(snaps, snapshotIndex) ==
  /\ Len(snaps) # 0
  /\ ~ (targetIndex(snaps, snapshotIndex) <= 0
        \/ targetIndex(snaps, snapshotIndex) >= Len(snaps))

\* whether rollback(snapshotIndex) succeeds
rollbackOk(snaps, snapshotIndex) ==
  /\ Len(snaps) # 0
  /\ ~ (targetIndex(snaps, snapshotIndex) < 0
        \/ targetIndex(snaps, snapshotIndex) >= Len(snaps))

\* the weights after a successful rollback: every weight the snapshot
\* names and the store holds is copied back
rollbackWeights(w, snaps, snapshotIndex) ==
  LET snapshot == snaps[targetIndex(snaps, snapshotIndex) + 1]
  IN  [n \in DOMAIN w |->
         IF n \in DOMAIN snapshot.weights THEN snapshot.weights[n] ELSE w[n]]

\* no createSnapshot() call of the host is being followed
NoMark == [set |-> FALSE, weights |-> initialWeights, auto |-> FALSE]

\* the updater's fields as one record, for the operators above
updaterState ==
  [currentWeights |-> currentWeights, snapshots |-> snapshots,
   config |-> config, updateCount |-> updateCount,
   lastMetrics |-> lastMetrics]

setUpdater(st, op) ==
  /\ currentWeights' = st.currentWeights
  /\ snapshots' = st.snapshots
  /\ updateCount' = st.updateCount
  /\ lastMetrics' = st.lastMetrics
  /\ mark' = IF mark.set
             THEN [mark EXCEPT !.auto =
                     @ \/ \E k \in (updateCount + 1)..st.updateCount :
                            k % config.snapshotInterval = 0]
             ELSE mark
  /\ lastUpdaterCall' = UpdaterCall(op, TRUE, FALSE, 0)
  /\ UNCHANGED config

applyUpdate(weightName, delta, alpha) ==
  /\ updateCount < MaxUpdates
  /\ \A n \in WeightNames :
       InRange(applyUpdateResult(updaterState, weightName, delta, alpha).currentWeights[n])
  /\ setUpdater(applyUpdateResult(updaterState, weightName, delta, alpha), "applyUpdate")

applyBatchUpdate(updates, alpha) ==
  /\ updateCount + Len(updates) <= MaxUpdates
  /\ \A n \in WeightNames :
       InRange(applyBatchUpdateResult(updaterState, updates, alpha).currentWeights[n])
  /\ setUpdater(applyBatchUpdateResult(updaterState, updates, alpha), "applyBatchUpdate")

replaceWeight(weightName, newWeight) ==
  /\ updateCount < MaxUpdates
  /\ IF weightName \notin DOMAIN currentWeights
     THEN UNCHANGED <<currentWeights, updateCount>>
     ELSE /\ currentWeights' = [currentWeights EXCEPT ![weightName] = newWeight]
          /\ updateCount' = updateCount + 1
  /\ lastUpdaterCall' = UpdaterCall("replaceWeight", TRUE, FALSE, 0)
  /\ UNCHANGED <<snapshots, config, lastMetrics, mark>>

\* createSnapshot(metrics) called by the host
createSnapshot(metrics) ==
  /\ snapshots' = createSnapshotResult(snapshots, currentWeights, config, metrics)
  /\ lastMetrics' = metrics
  /\ mark' = [set |-> TRUE, weights |-> currentWeights, auto |-> FALSE]
  /\ lastUpdaterCall' = UpdaterCall("createSnapshot", TRUE, FALSE, 0)
  /\ UNCHANGED <<currentWeights, config, updateCount>>

rollback(snapshotIndex) ==
  /\ IF rollbackOk(snapshots, snapshotIndex)
     THEN /\ currentWeights' = rollbackWeights(currentWeights, snapshots, snapshotIndex)
          /\ lastMetrics' = snapshots[targetIndex(snapshots, snapshotIndex) + 1].metrics
     ELSE UNCHANGED <<currentWeights, lastMetrics>>
  /\ lastUpdaterCall' =
       UpdaterCall(IF snapshotIndex = NoIndex THEN "rollback" ELSE "rollbackTo",
                   rollbackOk(snapshots, snapshotIndex),
                   mark.set /\ currentWeights # mark.weights,
                   snapshotIndex)
  /\ mark' = NoMark
  /\ UNCHANGED <<snapshots, config, updateCount>>

\* shouldRollback(currentMetrics) called by the host
shouldRollbackCall(currentMetrics) ==
  /\ lastUpdaterCall' =
       UpdaterCall("shouldRollback",
                   shouldRollback(lastMetrics, config, currentMetrics),
                   FALSE, currentMetrics)
  /\ UNCHANGED <<currentWeights, snapshots, config, updateCount, lastMetrics,
                 mark>>

clearOldSnapshots ==
  /\ snapshots' = IF Len(snapshots) > 1 THEN <<snapshots[Len(snapshots)]>>
                  ELSE snapshots
  /\ lastUpdaterCall' = UpdaterCall("clearOldSnapshots", TRUE, FALSE, 0)
  /\ mark' = NoMark
  /\ UNCHANGED <<currentWeights, config, updateCount, lastMetrics>>

\* the weight store after importWeights' loop: a known name is overwritten,
\* a new name is added
importWeightsResult(w, weights) ==
  [n \in DOMAIN w \cup DOMAIN weights |->
     IF n \in DOMAIN weights THEN weights[n] ELSE w[n]]

\* importWeights(weights), with its closing createSnapshot()
importWeights(weights) ==
  /\ currentWeights' = importWeightsResult(currentWeights, weights)
  /\ snapshots' = createSnapshotResult(snapshots, currentWeights', config, NoMetrics)
  /\ lastMetrics' = NoMetrics
  /\ lastUpdaterCall' = UpdaterCall("importWeights", TRUE, FALSE, 0)
  /\ mark' = NoMark
  /\ UNCHANGED <<config, updateCount>>

\* this.config = { ...this.config, ...config }
updateConfigResult(cfg, partial) ==
  [f \in DOMAIN cfg \cup DOMAIN partial |->
     IF f \in DOMAIN partial THEN partial[f] ELSE cfg[f]]

updateConfig(partial) ==
  /\ config' = updateConfigResult(config, partial)
  /\ lastUpdaterCall' = UpdaterCall("updateConfig", TRUE, FALSE, 0)
  /\ mark' = NoMark
  /\ UNCHANGED <<currentWeights, snapshots, updateCount, lastMetrics>>

\* the weight sets handed to importWeights
Imports == {[n \in WeightNames |-> <<0, 0>>]}

\* the partial configurations handed to updateConfig: the log is cut to one
\* snapshot
PartialConfigs == {[maxSnapshots |-> 1]}

\* the configurations the updater is constructed with: the one above, and
\* one that keeps no snapshot
InitialConfigs ==
  {initialConfig, [initialConfig EXCEPT !.maxSnapshots = 0]}

\* the update maps handed to applyBatchUpdate: a Map has one entry per
\* name, over "w" and the unknown "x"
UpdateMaps ==
  {<< >>}
    \cup {<<<<"w", d>>, <<UnknownName, d>>>> : d \in Deltas}
    \cup {<<<<UnknownName, d>>, <<"w", d>>>> : d \in Deltas}

----------------------------------------------------------------------------
(* WeightUpdater, its Float32Array buffers by identity *)

\* The operators above hold the weights by value. Here every Float32Array
\* is a buffer with an identity: buffers maps the identities to contents,
\* weightRefs is the Map currentWeights and snapshotRefs the log, both
\* holding identities. A buffer that nothing refers to any more is empty
\* again and its identity is free.
\* a free buffer holds nothing
NoBuffer == << >>
BufferIds == 1..(Cardinality(WeightNames) * (maxSnapshots + 2))

refsState ==
  [buffers |-> buffers, weightRefs |-> weightRefs,
   snapshotRefs |-> snapshotRefs, updateCount |-> updateCount]

\* the buffers of the snapshots of a log
snapshotBuffers(snapRefs) ==
  UNION {{snapRefs[i].weights[n] : n \in DOMAIN snapRefs[i].weights} :
           i \in 1..Len(snapRefs)}

\* the buffers the updater can reach
reachable(st) ==
  {st.weightRefs[n] : n \in DOMAIN st.weightRefs}
    \cup snapshotBuffers(st.snapshotRefs)

\* garbage collection: what is not reachable is free
collect(st) ==
  [st EXCEPT !.buffers =
     [b \in BufferIds |-> IF b \in reachable(st) THEN @[b] ELSE NoBuffer]]

\* new Float32Array(weight) for every name of names: fresh buffers, distinct
\* from each other and from every reachable one
fresh(st, names) ==
  CHOOSE f \in [names -> BufferIds \ reachable(st)] :
    \A a \in names, b \in names : a # b => f[a] # f[b]

\* the values that a Map of buffers holds
deref(heap, refs) == [n \in DOMAIN refs |-> heap[refs[n]]]

\* a createSnapshot that stores the live buffers themselves
createSnapshotShared(st, cfg, metrics) ==
  LET pushed == Append(st.snapshotRefs,
                       [weights |-> st.weightRefs, metrics |-> metrics])
  IN  collect([st EXCEPT !.snapshotRefs =
                 IF Len(pushed) > cfg.maxSnapshots THEN Tail(pushed)
                 ELSE pushed])

\* createSnapshot(metrics): snapshot.weights.set(name, new Float32Array(
\* weight)) for every weight, push, shift past maxSnapshots
createSnapshotRefs(st, cfg, metrics) ==
  LET copies == fresh(st, DOMAIN st.weightRefs)
      pushed == Append(st.snapshotRefs,
                       [weights |-> copies, metrics |-> metrics])
  IN  collect([st EXCEPT
                 !.buffers =
                   [b \in BufferIds |->
                      IF \E n \in DOMAIN copies : copies[n] = b
                      THEN @[st.weightRefs[CHOOSE n \in DOMAIN copies :
                                             copies[n] = b]]
                      ELSE @[b]],
                 !.snapshotRefs =
                   IF Len(pushed) > cfg.maxSnapshots THEN Tail(pushed)
                   ELSE pushed])

\* applyUpdate: currentWeight[i] += alpha * delta[i] writes into the live
\* buffer
applyUpdateRefs(st, cfg, weightName, delta, alpha) ==
  IF weightName \notin DOMAIN st.weightRefs THEN st
  ELSE LET b == st.weightRefs[weightName]
           written ==
             [st EXCEPT
                !.buffers[b] = [i \in 1..Len(@) |-> @[i] + alpha * delta[i]],
                !.updateCount = @ + 1]
       IN  IF written.updateCount % cfg.snapshotInterval = 0
           THEN createSnapshotRefs(written, cfg, NoMetrics)
           ELSE written

RECURSIVE applyBatchUpdateRefs(_, _, _, _)
applyBatchUpdateRefs(st, cfg, updates, alpha) ==
  IF updates = << >> THEN st
  ELSE applyBatchUpdateRefs(
         applyUpdateRefs(st, cfg, Head(updates)[1], Head(updates)[2], alpha),
         cfg, Tail(updates), alpha)

\* replaceWeight: currentWeight.set(newWeight) writes into the live buffer
replaceWeightRefs(st, weightName, newWeight) ==
  IF weightName \notin DOMAIN st.weightRefs THEN st
  ELSE [st EXCEPT !.buffers[st.weightRefs[weightName]] = newWeight,
                  !.updateCount = @ + 1]

\* rollback: currentWeight.set(weight) copies the contents of the
\* snapshot's buffer into the live buffer
rollbackRefs(st, snapshotIndex) ==
  IF ~rollbackOk(st.snapshotRefs, snapshotIndex) THEN st
  ELSE LET snapshot ==
             st.snapshotRefs[targetIndex(st.snapshotRefs, snapshotIndex) + 1]
       IN  [st EXCEPT !.buffers =
              [b \in BufferIds |->
                 IF \E n \in DOMAIN snapshot.weights \cap DOMAIN st.weightRefs :
                      st.weightRefs[n] = b
                 THEN @[snapshot.weights[
                          CHOOSE n \in DOMAIN snapshot.weights
                                         \cap DOMAIN st.weightRefs :
                            st.weightRefs[n] = b]]
                 ELSE @[b]]]

\* importWeights: currentWeight.set(weight) for a known name, a new
\* Float32Array for a new one, then createSnapshot()
importWeightsRefs(st, cfg, weights) ==
  LET added == DOMAIN weights \ DOMAIN st.weightRefs
      copies == fresh(st, added)
      refs == [n \in DOMAIN st.weightRefs \cup added |->
                 IF n \in added THEN copies[n] ELSE st.weightRefs[n]]
  IN  createSnapshotRefs(
        [st EXCEPT
           !.weightRefs = refs,
           !.buffers =
             [b \in BufferIds |->
                IF \E n \in DOMAIN weights : refs[n] = b
                THEN weights[CHOOSE n \in DOMAIN weights : refs[n] = b]
                ELSE @[b]]],
        cfg, NoMetrics)

setRefs(st) ==
  /\ buffers' = st.buffers
  /\ weightRefs' = st.weightRefs
  /\ snapshotRefs' = st.snapshotRefs

\* the calls of the host, on the values and on the buffers
applyUpdateOnBuffers(weightName, delta, alpha) ==
  /\ applyUpdate(weightName, delta, alpha)
  /\ setRefs(applyUpdateRefs(refsState, config, weightName, delta, alpha))

applyBatchUpdateOnBuffers(updates, alpha) ==
  /\ applyBatchUpdate(updates, alpha)
  /\ setRefs(applyBatchUpdateRefs(refsState, config, updates, alpha))

replaceWeightOnBuffers(weightName, newWeight) ==
  /\ replaceWeight(weightName, newWeight)
  /\ setRefs(replaceWeightRefs(refsState, weightName, newWeight))

createSnapshotOnBuffers(metrics) ==
  /\ createSnapshot(metrics)
  /\ setRefs(createSnapshotRefs(refsState, config, metrics))

rollbackOnBuffers(snapshotIndex) ==
  /\ rollback(snapshotIndex)
  /\ setRefs(rollbackRefs(refsState, snapshotIndex))

importWeightsOnBuffers(weights) ==
  /\ importWeights(weights)
  /\ setRefs(importWeightsRefs(refsState, config, weights))

----------------------------------------------------------------------------
(* BatchManager *)

\* BatchConfig: minBatchSize 1 as in the source; the source's batch sizes,
\* 2 while the user is active and 16 while idle, both cover the model's
\* whole queue, and the model keeps the idle one.
minBatchSize == 1
maxBatchSize == 32
idleBatchSize == 16

\* priorityWeights, times ten
priorityWeight(p) == p * 10

\* sortBatch's comparator
compareBatch(a, b) ==
  LET priorityDiff == priorityWeight(b.priority) - priorityWeight(a.priority)
  IN  IF priorityDiff > 1 \/ priorityDiff < -1 THEN priorityDiff
      ELSE b.timestamp - a.timestamp

RECURSIVE insertBatchSorted(_, _)
insertBatchSorted(s, x) ==
  IF s = << >> THEN <<x>>
  ELSE IF compareBatch(Head(s), x) > 0 THEN <<x>> \o s
       ELSE <<Head(s)>> \o insertBatchSorted(Tail(s), x)

RECURSIVE sortBatch(_)
sortBatch(s) ==
  IF s = << >> THEN << >>
  ELSE insertBatchSorted(sortBatch(SubSeq(s, 1, Len(s) - 1)), s[Len(s)])

getNextBatch(q) ==
  IF q = << >> THEN << >> ELSE sortBatch(getBatch(q, idleBatchSize))

hasEnoughExamples(q) == Len(q) >= minBatchSize

\* BatchManager.getBatch(size): the size clamped to the configured range
managerGetBatchResult(q, size) ==
  IF q = << >> THEN << >>
  ELSE sortBatch(getBatch(q, Max(Min(size, maxBatchSize), minBatchSize)))

\* BatchManager.getNextBatch(): Array.prototype.sort works in place, on the
\* array that queue.getBatch returned, and returns that array
getNextBatchCall ==
  /\ returned' = getNextBatch(queue)
  /\ queue' = IF queue = << >> THEN queue ELSE sliceReceiver(queue, 0, idleBatchSize)
  /\ lastCall' = Call("getNextBatch", 0, 0, {})
  /\ UNCHANGED processedIds

\* BatchManager.getBatch(size)
managerGetBatch(size) ==
  /\ returned' = managerGetBatchResult(queue, size)
  /\ queue' = IF queue = << >> THEN queue
              ELSE sliceReceiver(queue, 0, Max(Min(size, maxBatchSize), minBatchSize))
  /\ lastCall' = Call("managerGetBatch", 0, size, {})
  /\ UNCHANGED processedIds

\* markProcessed(examples): the ids handed to removeBatch
batchIds(examples) == [i \in 1..Len(examples) |-> examples[i].id]

----------------------------------------------------------------------------
(* TrainingScheduler, TrainingEngine and their host *)

\* SchedulerConfig, the source's default: pauseOnInference, and maxCPUUsage
\* 0.2 (20 percent)
pauseOnInference == TRUE
maxCPUUsagePct == 20
minInterval == (1000 * 100) \div maxCPUUsagePct

\* the model's clock advances by minInterval
tickMs == minInterval

\* TrainingConfig.batchSize of the engine's train() loop
batchSize == 2

\* Date.now() when the scheduler is constructed, and the end of the model's
\* clock
constructedAt == 10 * tickMs
MaxNow == constructedAt + MaxTicks * tickMs

\* the loss trainBatch reports
Losses == {1, 2}

Callers == {"scheduler", "train"}
IdleBurst == [pc |-> "idle", origin |-> "none", batch |-> << >>]
NoBurst ==
  [end |-> -1, outcome |-> "none", snapshot |-> FALSE, rollback |-> FALSE]
IdleLoop == [pc |-> "idle", left |-> 0, batch |-> << >>]

shouldTrain ==
  /\ ~ isTrainingActive
  /\ ~ (pauseOnInference /\ inferenceInProgress)
  /\ hasEnoughExamples(queue)
  /\ ~ (now - lastTrainingTime < minInterval)

\* scheduleNextTraining: one more pending check if the scheduler is on
scheduleNextTraining(pending) == IF isScheduled THEN pending + 1 ELSE pending

\* isTrainingActive after a performTraining that clears the flag as the last
\* statement of its try block
flagWithoutFinally(outcome) == outcome # "resolved"

\* a performTraining whose catch clause leaves the flag of a burst that
\* threw
flagKeptByCatch(outcome) == outcome = "rejected"

\* isTrainingActive after performTraining's finally clause, whatever the
\* outcome: "empty", "resolved" or "rejected"
flagAfterBurst(outcome) == FALSE

\* trainBatch(examples) up to its first await: with the fast learner every
\* example is learned or recalled and the call returns its metrics at once;
\* without it the call awaits trainExample
trainBatchCalled(caller) ==
  /\ runs' = [runs EXCEPT ![caller] =
                IF enableFastLearning THEN "resolved" ELSE "running"]
  /\ isTraining' = ~ enableFastLearning

\* performTraining(maxTimeMs) up to its await of trainBatch, or to its end
\* when the batch is empty; `pending` are the checks pending once the
\* caller has returned
performTraining(origin, pending) ==
  LET batch == getNextBatch(queue)
  IN  IF batch = << >>
      THEN /\ isTrainingActive' = flagAfterBurst("empty")
           /\ pendingChecks' = IF origin = "check"
                               THEN scheduleNextTraining(pending) ELSE pending
           /\ lastBurst' = [end |-> now, outcome |-> "empty",
                            snapshot |-> FALSE, rollback |-> FALSE]
           /\ UNCHANGED <<burst, runs, isTraining>>
      ELSE /\ isTrainingActive' = TRUE
           /\ burst' = [pc |-> "awaiting", origin |-> origin, batch |-> batch]
           /\ trainBatchCalled("scheduler")
           /\ pendingChecks' = pending
           /\ UNCHANGED lastBurst

start ==
  /\ pendingChecks < MaxPending
  /\ IF isScheduled
     THEN UNCHANGED <<isScheduled, pendingChecks>>
     ELSE /\ isScheduled' = TRUE
          /\ pendingChecks' = pendingChecks + 1
  /\ UNCHANGED <<isTrainingActive, lastTrainingTime, trainingCount,
                 inferenceInProgress, burst, isTraining, enableFastLearning,
                 runs, trainLoop, now, lastBurst, queueVars, updaterVars>>

\* stop(): checkIntervalId is never assigned, so nothing is cancelled
stop ==
  /\ isScheduled' = FALSE
  /\ UNCHANGED <<isTrainingActive, lastTrainingTime, trainingCount,
                 inferenceInProgress, pendingChecks, burst, isTraining,
                 enableFastLearning, runs, trainLoop, now, lastBurst,
                 queueVars, updaterVars>>

\* updateConfig({enableBackgroundTraining}): start() or stop()
schedulerUpdateConfig(enableBackgroundTraining) ==
  IF enableBackgroundTraining THEN start ELSE stop

\* a pending check runs: handleIdleCallback(deadline), where enoughIdle is
\* deadline.timeRemaining() >= minIdleTimeMs; checkAndTrain() is the case
\* enoughIdle
check(enoughIdle) ==
  /\ pendingChecks > 0
  /\ trainingCount < MaxTrainingCount
  /\ IF enoughIdle /\ shouldTrain
     THEN performTraining("check", pendingChecks - 1)
     ELSE /\ pendingChecks' = scheduleNextTraining(pendingChecks - 1)
          /\ UNCHANGED <<isTrainingActive, burst, runs, isTraining, lastBurst>>
  /\ UNCHANGED <<isScheduled, lastTrainingTime, trainingCount,
                 inferenceInProgress, enableFastLearning, trainLoop, now,
                 queueVars, updaterVars>>

forceTraining ==
  /\ trainingCount < MaxTrainingCount
  /\ IF isTrainingActive
     THEN UNCHANGED <<isTrainingActive, burst, runs, isTraining,
                     pendingChecks, lastBurst>>
     ELSE performTraining("force", pendingChecks)
  /\ UNCHANGED <<isScheduled, lastTrainingTime, trainingCount,
                 inferenceInProgress, enableFastLearning, trainLoop, now,
                 queueVars, updaterVars>>

setInferenceInProgress(inProgress) ==
  /\ inferenceInProgress' = inProgress
  /\ UNCHANGED <<isScheduled, isTrainingActive, lastTrainingTime,
                 trainingCount, pendingChecks, burst, isTraining,
                 enableFastLearning, runs, trainLoop, now, lastBurst,
                 queueVars, updaterVars>>

\* how a trainBatch call can end: a call that awaits trainExample returns
\* its metrics ("resolved") or throws ("rejected"); a call the fast learner
\* has served has returned its metrics
Outcomes(caller) ==
  IF runs[caller] = "running" THEN {"resolved", "rejected"}
  ELSE IF runs[caller] = "resolved" THEN {"resolved"}
  ELSE {}

\* isTraining once a trainBatch call has ended: an exception leaves
\* trainBatch before the flag is cleared
isTrainingAfter(outcome) == IF outcome = "resolved" THEN FALSE ELSE isTraining

\* { loss: metrics.loss }
burstMetrics(loss) == [loss |-> loss, accuracy |-> NoAccuracy]

\* a scheduler that takes a snapshot after every burst
snapshotAlways(count) == TRUE

\* trainingCount % 10 === 0: the model's scheduler takes a snapshot every
\* burstsPerSnapshot bursts, 10 in the source
burstsPerSnapshot == 2
snapshotDue(count) == count % burstsPerSnapshot = 0

\* the weight updater after the burst's snapshot and rollback check, and
\* whether the burst called createSnapshot and rollback
afterBurstUpdater(count, loss) ==
  LET snaps == IF snapshotDue(count)
               THEN createSnapshotResult(snapshots, currentWeights, config,
                                         burstMetrics(loss))
               ELSE snapshots
      last  == IF snapshotDue(count) THEN burstMetrics(loss) ELSE lastMetrics
      back  == shouldRollback(last, config, burstMetrics(loss))
                 /\ rollbackOk(snaps, NoIndex)
  IN  [snapshot |-> snapshotDue(count),
       rollback |-> shouldRollback(last, config, burstMetrics(loss)),
       snapshots |-> snaps,
       currentWeights |-> IF back THEN rollbackWeights(currentWeights, snaps, NoIndex)
                          ELSE currentWeights,
       lastMetrics |-> IF back THEN snaps[Len(snaps)].metrics ELSE last]

\* the burst's trainBatch call ends, and performTraining runs from there to
\* its end, with the caller's scheduleNextTraining
performTrainingResumes(outcome, loss) ==
  /\ burst.pc = "awaiting"
  /\ outcome \in Outcomes("scheduler")
  /\ IF outcome = "resolved"
     THEN /\ queue' = removeBatchResult(queue, processedIds, batchIds(burst.batch)).queue
          /\ processedIds' =
               removeBatchResult(queue, processedIds, batchIds(burst.batch)).processedIds
          /\ trainingCount' = trainingCount + 1
          /\ lastTrainingTime' = now
          /\ snapshots' = afterBurstUpdater(trainingCount + 1, loss).snapshots
          /\ currentWeights' = afterBurstUpdater(trainingCount + 1, loss).currentWeights
          /\ lastMetrics' = afterBurstUpdater(trainingCount + 1, loss).lastMetrics
     ELSE UNCHANGED <<queue, processedIds, trainingCount, lastTrainingTime,
                      snapshots, currentWeights, lastMetrics>>
  /\ isTrainingActive' = flagAfterBurst(outcome)
  /\ isTraining' = isTrainingAfter(outcome)
  /\ burst' = IdleBurst
  /\ runs' = [runs EXCEPT !["scheduler"] = "none"]
  /\ pendingChecks' = IF burst.origin = "check"
                      THEN scheduleNextTraining(pendingChecks) ELSE pendingChecks
  /\ lastBurst' =
       [end |-> now, outcome |-> outcome,
        snapshot |-> outcome = "resolved"
                       /\ afterBurstUpdater(trainingCount + 1, loss).snapshot,
        rollback |-> outcome = "resolved"
                       /\ afterBurstUpdater(trainingCount + 1, loss).rollback]
  /\ UNCHANGED <<isScheduled, inferenceInProgress,
                 enableFastLearning, trainLoop, now, returned, lastCall,
                 config, updateCount, lastUpdaterCall, mark>>

\* train()'s for loop from its test with `left` iterations to go and the
\* queue q, up to its next await: of the one-second sleep when the queue is
\* empty, of trainBatch otherwise
trainLoopFrom(left, q) ==
  IF left = 0 THEN IdleLoop
  ELSE IF q = << >> THEN [pc |-> "sleeping", left |-> left, batch |-> << >>]
  ELSE [pc |-> "awaiting", left |-> left, batch |-> getBatch(q, batchSize)]

\* the host calls train(numSteps) on the engine
train(numSteps) ==
  /\ trainLoop = IdleLoop
  /\ trainLoop' = trainLoopFrom(numSteps, queue)
  /\ IF queue = << >> THEN UNCHANGED <<runs, isTraining>>
     ELSE trainBatchCalled("train")
  /\ UNCHANGED <<isScheduled, isTrainingActive, lastTrainingTime,
                 trainingCount, inferenceInProgress, pendingChecks, burst,
                 enableFastLearning, now, lastBurst, queueVars, updaterVars>>

\* the loop's one-second sleep ends: `continue`, and the next iteration
trainWakes ==
  /\ trainLoop.pc = "sleeping"
  /\ trainLoop' = trainLoopFrom(trainLoop.left - 1, queue)
  /\ IF trainLoop.left = 1 \/ queue = << >> THEN UNCHANGED <<runs, isTraining>>
     ELSE trainBatchCalled("train")
  /\ UNCHANGED <<isScheduled, isTrainingActive, lastTrainingTime,
                 trainingCount, inferenceInProgress, pendingChecks, burst,
                 enableFastLearning, now, lastBurst, queueVars, updaterVars>>

\* the loop's trainBatch call ends, and train() runs from there: removeBatch
\* and the next iteration, or the end of train() when trainBatch has thrown
trainResumes(outcome) ==
  /\ trainLoop.pc = "awaiting"
  /\ outcome \in Outcomes("train")
  /\ IF outcome = "resolved"
     THEN /\ queue' = removeBatchResult(queue, processedIds, batchIds(trainLoop.batch)).queue
          /\ processedIds' =
               removeBatchResult(queue, processedIds, batchIds(trainLoop.batch)).processedIds
          /\ trainLoop' = trainLoopFrom(trainLoop.left - 1, queue')
          /\ IF trainLoop.left = 1 \/ queue' = << >>
             THEN /\ runs' = [runs EXCEPT !["train"] = "none"]
                  /\ isTraining' = isTrainingAfter(outcome)
             ELSE trainBatchCalled("train")
     ELSE /\ trainLoop' = IdleLoop
          /\ runs' = [runs EXCEPT !["train"] = "none"]
          /\ isTraining' = isTrainingAfter(outcome)
          /\ UNCHANGED <<queue, processedIds>>
  /\ UNCHANGED <<isScheduled, isTrainingActive, lastTrainingTime,
                 trainingCount, inferenceInProgress, pendingChecks, burst,
                 enableFastLearning, now, lastBurst,
                 returned, lastCall, updaterVars>>

\* the examples the chat logger enqueues: two conversations, HIGH priority
ChatExamples ==
  {e \in TrainingExample : e.priority = HIGH /\ e.timestamp = 1 /\ e.id <= 2}

\* the conversations of every id
BurstExamples ==
  {e \in TrainingExample : e.priority = HIGH /\ e.timestamp = 1}

\* the host enqueues an example: queue.add(example)
enqueue(example) ==
  /\ queue' = addResult(queue, processedIds, example).queue
  /\ processedIds' = addResult(queue, processedIds, example).processedIds
  /\ UNCHANGED <<returned, lastCall, isScheduled, isTrainingActive, lastTrainingTime,
                 trainingCount, inferenceInProgress, pendingChecks, burst,
                 isTraining, enableFastLearning, runs, trainLoop, now,
                 lastBurst, updaterVars>>

\* time passes
tick ==
  /\ now < MaxNow
  /\ now' = now + tickMs
  /\ UNCHANGED <<isScheduled, isTrainingActive, lastTrainingTime,
                 trainingCount, inferenceInProgress, pendingChecks, burst,
                 isTraining, enableFastLearning, runs, trainLoop,
                 lastBurst, queueVars, updaterVars>>

----------------------------------------------------------------------------
(* ChatLogger and DataCollector *)

\* maxHistorySize is 1000 in the source; the model runs the same code with
\* a history that the bounded runs can fill
maxHistorySize == 3

\* DataCollectorConfig.enableChatLogging, the default
enableChatLogging == TRUE

\* interface Message: the content is kept as its length, the timestamp as
\* its getTime()
Roles == {"user", "assistant"}
Message ==
  {[id |-> i, role |-> r, contentLen |-> DefaultMinLength, timestamp |-> t] :
     i \in 1..MaxMessageId, r \in Roles, t \in 1..MaxTime}

\* `chat_${current.id}_${next.id}`: one id for every pair of message ids
chatId(currentId, nextId) == currentId * (MaxMessageId + 1) + nextId

\* calculatePriority(timestamp) at the time t, in milliseconds
calculatePriority(timestamp, t) ==
  IF t - timestamp < 5 * 60 * 1000 THEN HIGH
  ELSE IF t - timestamp < 30 * 60 * 1000 THEN MEDIUM
  ELSE LOW

\* ChatLogger.logMessage(message): push, and shift beyond maxHistorySize
logMessageResult(history, message) ==
  IF Len(history) + 1 > maxHistorySize
  THEN Tail(Append(history, message))
  ELSE Append(history, message)

\* extractTrainingPairs() at the time t: an example for every user message
\* that an assistant message follows, over the whole history
RECURSIVE extractFrom(_, _, _)
extractFrom(history, i, t) ==
  IF i >= Len(history) THEN << >>
  ELSE LET current == history[i]
           next == history[i + 1]
       IN  IF current.role = "user" /\ next.role = "assistant"
           THEN <<[id |-> chatId(current.id, next.id),
                   priority |-> calculatePriority(next.timestamp, t),
                   timestamp |-> next.timestamp,
                   inputLen |-> current.contentLen,
                   outputLen |-> next.contentLen]>>
                  \o extractFrom(history, i + 1, t)
           ELSE extractFrom(history, i + 1, t)
extractTrainingPairs(history, t) == extractFrom(history, 1, t)

\* DataCollector.logMessage(message)
logMessage(message) ==
  /\ conversationHistory' =
       IF enableChatLogging
       THEN logMessageResult(conversationHistory, message)
       ELSE conversationHistory
  /\ UNCHANGED <<collectIntervalId, queueVars>>

\* DataCollector.collectFromChat(): addBatch of the pairs of the history
collectFromChat ==
  /\ IF enableChatLogging
     THEN addBatch(extractTrainingPairs(conversationHistory, now))
     ELSE UNCHANGED queueVars
  /\ UNCHANGED <<conversationHistory, collectIntervalId>>

\* startAutoCollect(): the interval timer, unless there is one
startAutoCollect ==
  /\ collectIntervalId' = TRUE
  /\ UNCHANGED <<conversationHistory, queueVars>>

\* stopAutoCollect()
stopAutoCollect ==
  /\ collectIntervalId' = FALSE
  /\ UNCHANGED <<conversationHistory, queueVars>>

\* the interval timer of startAutoCollect fires
autoCollect ==
  /\ collectIntervalId
  /\ collectFromChat

\* a burst of the scheduler has trained on the next batch:
\* batchManager.markProcessed(batch)
markProcessed ==
  /\ queue # << >>
  /\ removeBatch(batchIds(getNextBatch(queue)))
  /\ UNCHANGED <<conversationHistory, collectIntervalId>>

----------------------------------------------------------------------------
(* LoRAAdapter *)

\* The entries of a Float32Array: the finite values are integers of
\* magnitude below Infinity, and the two infinities and NaN are values of
\* their own
Infinity == 1000000
NaN == 2000000

isNaN(a) == a = NaN
isInfinite(a) == a = Infinity \/ a = -Infinity
isFiniteNumber(a) == ~isNaN(a) /\ ~isInfinite(a)

signOf(a) == IF a > 0 THEN 1 ELSE IF a < 0 THEN -1 ELSE 0

\* a finite result stored as a float: it overflows to an infinity
toFloat(v) ==
  IF v >= Infinity THEN Infinity
  ELSE IF v <= -Infinity THEN -Infinity
  ELSE v

\* a * b on floats: NaN is absorbing and 0 * Infinity is NaN
fmul(a, b) ==
  IF isNaN(a) \/ isNaN(b) THEN NaN
  ELSE IF isInfinite(a) \/ isInfinite(b)
       THEN IF a = 0 \/ b = 0 THEN NaN
            ELSE signOf(a) * signOf(b) * Infinity
       ELSE toFloat(a * b)

\* a + b on floats: NaN is absorbing and Infinity - Infinity is NaN
fadd(a, b) ==
  IF isNaN(a) \/ isNaN(b) THEN NaN
  ELSE IF isInfinite(a) /\ isInfinite(b)
       THEN IF a = b THEN a ELSE NaN
       ELSE IF isInfinite(a) THEN a
       ELSE IF isInfinite(b) THEN b
       ELSE toFloat(a + b)

\* arr[k] of the code, k counted from 0: an index outside the array reads
\* undefined, which arithmetic turns into NaN
at(arr, k) == IF k + 1 \in 1..Len(arr) THEN arr[k + 1] ELSE NaN

\* new Float32Array(n)
zeros(n) == [i \in 1..n |-> 0]

\* arr.fill(value) that leaves the array as it was
fillNothing(arr, value) == arr

\* arr.fill(value)
fill(arr, value) == [i \in 1..Len(arr) |-> value]

\* LoRAConfig: rank and alpha of the adapter
loraConfig == [rank |-> 1, alpha |-> 2]

\* the module names of the model; only those of Initialized are ever given
\* to initializeLayer
ModuleNames == {"m", "u"}
Initialized == {"m"}

\* this.layers.get(moduleName) of a name that has no layer; an optional
\* array (gradA, gradB, mA, vA, mB, vB) that is undefined
NoLayer == [inFeatures |-> 0]
NoArray == << >>

\* (Math.random() - 0.5) * 0.01, in units of 0.005
RandomValues == {-1, 1}

\* the layer that initializeLayer(moduleName, inFeatures, outFeatures)
\* stores, A being the random matrix
newLayer(A, inFeatures, outFeatures) ==
  [A |-> A,
   B |-> fill(zeros(outFeatures * loraConfig.rank), 0),
   gradA |-> NoArray, gradB |-> NoArray,
   mA |-> NoArray, vA |-> NoArray, mB |-> NoArray, vB |-> NoArray,
   adamSteps |-> 0,
   inFeatures |-> inFeatures,
   outFeatures |-> outFeatures,
   rank |-> loraConfig.rank,
   alpha |-> loraConfig.alpha,
   scaling |-> loraConfig.alpha \div loraConfig.rank]

\* let sum = 0; for (j = 0; j < n; j++) sum += a[offA + j * strideA] * b[j]
RECURSIVE dot(_, _, _, _, _)
dot(a, offA, strideA, b, n) ==
  IF n = 0 THEN 0
  ELSE fadd(dot(a, offA, strideA, b, n - 1),
            fmul(at(a, offA + (n - 1) * strideA), at(b, n - 1)))

\* Ax = A @ x, a Float32Array of length rank
AxOf(layer, x) ==
  [i \in 1..layer.rank |->
     dot(layer.A, (i - 1) * layer.inFeatures, 1, x, layer.inFeatures)]

\* forward that answers a missing layer with an all-zero output
forwardZeros(ls, moduleName, x, baseOutput) ==
  IF ls[moduleName] = NoLayer THEN zeros(Len(baseOutput))
  ELSE baseOutput

\* the array forward(moduleName, x, baseOutput) returns
forwardResult(ls, moduleName, x, baseOutput) ==
  IF ls[moduleName] = NoLayer THEN baseOutput
  ELSE LET layer == ls[moduleName]
           Ax == AxOf(layer, x)
           BAx == [i \in 1..layer.outFeatures |->
                     fmul(dot(layer.B, (i - 1) * layer.rank, 1, Ax, layer.rank),
                          layer.scaling)]
       IN  [i \in 1..layer.outFeatures |->
              fadd(at(baseOutput, i - 1), BAx[i])]

\* the layers after backward(moduleName, x, gradOutput)
backwardResult(ls, moduleName, x, gradOutput) ==
  IF ls[moduleName] = NoLayer THEN ls
  ELSE LET layer == ls[moduleName]
           gradA0 == IF layer.gradA = NoArray
                     THEN zeros(layer.rank * layer.inFeatures)
                     ELSE layer.gradA
           gradB0 == IF layer.gradA = NoArray
                     THEN zeros(layer.outFeatures * layer.rank)
                     ELSE layer.gradB
           Ax == AxOf(layer, x)
           BTgradOut ==
             [i \in 1..layer.rank |->
                fmul(dot(layer.B, i - 1, layer.rank, gradOutput,
                         layer.outFeatures),
                     layer.scaling)]
           gradB1 ==
             [k \in 1..Len(gradB0) |->
                fadd(gradB0[k],
                     fmul(fmul(at(gradOutput, (k - 1) \div layer.rank),
                               Ax[((k - 1) % layer.rank) + 1]),
                          layer.scaling))]
           gradA1 ==
             [k \in 1..Len(gradA0) |->
                fadd(gradA0[k],
                     fmul(BTgradOut[((k - 1) \div layer.inFeatures) + 1],
                          at(x, (k - 1) % layer.inFeatures)))]
       IN  [ls EXCEPT ![moduleName] =
              [layer EXCEPT !.gradA = gradA1, !.gradB = gradB1]]

\* The first moment of Adam, m = beta1 * m + (1 - beta1) * grad with
\* beta1 = 0.9, kept in units of 10^-t after t updates so that it stays an
\* integer
momentOne(m, grad, t) == fadd(fmul(9, m), fmul(10 ^ t, grad))

\* The second moment, v = beta2 * v + (1 - beta2) * grad * grad, kept as
\* 0, a positive number (1), Infinity or NaN
momentTwo(v, grad) ==
  LET s == fadd(v, fmul(grad, grad))
  IN  IF isFiniteNumber(s) THEN signOf(s) ELSE s

\* param -= lr * mHat / (sqrt(vHat) + epsilon), in units of one step of the
\* learning rate: the step has the sign of mHat; with step = 0 both bias
\* corrections are 0 and the quotient is NaN, as it is when the moments are
\* not finite
adamParam(param, m, v, step) ==
  IF step = 0 \/ ~isFiniteNumber(m) \/ ~isFiniteNumber(v) THEN NaN
  ELSE fadd(param, -signOf(m))

\* adamUpdate(param, grad, m, v, ...): the arrays param, m and v afterwards
adamUpdate(param, grad, m, v, t, step) ==
  LET m1 == [i \in 1..Len(param) |-> momentOne(at(m, i - 1), at(grad, i - 1), t)]
      v1 == [i \in 1..Len(param) |-> momentTwo(at(v, i - 1), at(grad, i - 1))]
  IN  [param |-> [i \in 1..Len(param) |-> adamParam(param[i], m1[i], v1[i], step)],
       m |-> m1,
       v |-> v1]

\* one layer after updateParameters(learningRate, beta1, beta2, epsilon, step)
updateLayer(layer, step) ==
  IF layer = NoLayer THEN layer
  ELSE IF layer.gradA = NoArray \/ layer.gradB = NoArray THEN layer
  ELSE LET mA0 == IF layer.mA = NoArray THEN zeros(Len(layer.A)) ELSE layer.mA
           vA0 == IF layer.mA = NoArray THEN zeros(Len(layer.A)) ELSE layer.vA
           mB0 == IF layer.mA = NoArray THEN zeros(Len(layer.B)) ELSE layer.mB
           vB0 == IF layer.mA = NoArray THEN zeros(Len(layer.B)) ELSE layer.vB
           a == adamUpdate(layer.A, layer.gradA, mA0, vA0, layer.adamSteps, step)
           b == adamUpdate(layer.B, layer.gradB, mB0, vB0, layer.adamSteps, step)
       IN  [layer EXCEPT !.A = a.param, !.mA = a.m, !.vA = a.v,
                         !.B = b.param, !.mB = b.m, !.vB = b.v,
                         !.adamSteps = layer.adamSteps + 1,
                         !.gradA = fill(layer.gradA, 0),
                         !.gradB = fill(layer.gradB, 0)]

\* the layers after updateParameters(..., step)
updateParametersResult(ls, step) ==
  [n \in ModuleNames |-> updateLayer(ls[n], step)]

\* the most recent adapter call: its name, the module it names, the
\* baseOutput given to forward and what forward returned
LoraCall(op, name, base, output) ==
  [op |-> op, name |-> name, base |-> base, output |-> output]

\* the arrays handed to forward and backward
Inputs ==
  UNION {{[i \in 1..n |-> 1], [i \in 1..n |-> IF i = 1 THEN Infinity ELSE 1]} :
           n \in 1..MaxFeatures}
BaseOutputs ==
  UNION {[1..n -> {5}] : n \in 1..MaxFeatures}
GradOutputs ==
  UNION {[1..n -> {1}] : n \in 1..MaxFeatures}
AdamSteps == {0, 1}

\* the callers hand a registered module arrays of its own shape: x of
\* length inFeatures, baseOutput and gradOutput of length outFeatures
shaped(ls, moduleName, x, out) ==
  ls[moduleName] # NoLayer =>
    (Len(x) = ls[moduleName].inFeatures /\ Len(out) = ls[moduleName].outFeatures)

\* every finite gradient of the layers is at most MaxGrad in magnitude
within(arr) ==
  \A k \in 1..Len(arr) :
    isFiniteNumber(arr[k]) => (arr[k] <= MaxGrad /\ arr[k] >= -MaxGrad)
gradsWithin(ls) ==
  \A n \in ModuleNames :
    ls[n] # NoLayer => (within(ls[n].gradA) /\ within(ls[n].gradB))

\* initializeLayer(moduleName, inFeatures, outFeatures)
initializeLayer(moduleName, inFeatures, outFeatures) ==
  \E A \in [1..(loraConfig.rank * inFeatures) -> RandomValues] :
    /\ layers' = [layers EXCEPT ![moduleName] = newLayer(A, inFeatures, outFeatures)]
    /\ lastLoraCall' = LoraCall("initializeLayer", moduleName, << >>, << >>)

\* forward(moduleName, x, baseOutput)
forward(moduleName, x, baseOutput) ==
  /\ lastLoraCall' = LoraCall("forward", moduleName, baseOutput,
                              forwardResult(layers, moduleName, x, baseOutput))
  /\ UNCHANGED layers

\* backward(moduleName, x, gradOutput)
backward(moduleName, x, gradOutput) ==
  /\ gradsWithin(backwardResult(layers, moduleName, x, gradOutput))
  /\ layers' = backwardResult(layers, moduleName, x, gradOutput)
  /\ lastLoraCall' = LoraCall("backward", moduleName, << >>, << >>)

\* updateParameters(learningRate, beta1, beta2, epsilon, step)
updateParameters(step) ==
  /\ \A n \in ModuleNames :
       layers[n] # NoLayer => layers[n].adamSteps < MaxAdamSteps
  /\ layers' = updateParametersResult(layers, step)
  /\ lastLoraCall' = LoraCall("updateParameters", "", << >>, << >>)

\* zeroGrad() on the layers ls
zeroGradResult(ls) ==
  [n \in ModuleNames |->
     IF ls[n] = NoLayer THEN ls[n]
     ELSE [ls[n] EXCEPT
             !.gradA = IF @ = NoArray THEN @ ELSE fill(@, 0),
             !.gradB = IF @ = NoArray THEN @ ELSE fill(@, 0)]]

\* zeroGrad()
zeroGrad ==
  /\ layers' = zeroGradResult(layers)
  /\ lastLoraCall' = LoraCall("zeroGrad", "", << >>, << >>)

----------------------------------------------------------------------------
(* FastLearner *)

\* FastLearnerConfig: the capacity of the episodic memory and the similarity
\* threshold, in percent
learnerConfig == [episodicMemorySize |-> 2, similarityThresholdPct |-> 85]

\* the character codes texts are made of, and the texts: sequences of
\* character codes
CharCodes == <<97, 98>>
Texts == {<< >>, <<97>>, <<98>>, <<97, 98>>}

\* the examples handed to learnFast: the id names the input
LearnExamples ==
  {[id |-> 1, input |-> << >>, output |-> <<98>>],
   [id |-> 2, input |-> <<97>>, output |-> <<98>>],
   [id |-> 3, input |-> <<98>>, output |-> <<97>>],
   [id |-> 4, input |-> <<97, 98>>, output |-> <<98>>]}

\* how many characters of the text have the code c modulo 256
countOf(text, c) == Cardinality({i \in 1..Len(text) : text[i] % 256 = c})

\* encodeText(text): the entry of every character code is its frequency,
\* here in units of 1 / text.length; the frequencies sum to 1, so that the
\* division by the sum leaves them as they are, and the empty text encodes
\* as the zero vector
encodeText(text) == [k \in 1..Len(CharCodes) |-> countOf(text, CharCodes[k])]

\* The similarities are cosines of vectors without negative entries; a
\* cosine is kept as its square, the fraction num / den
ZeroSimilarity == [num |-> 0, den |-> 1]
greater(s1, s2) == s1.num * s2.den > s2.num * s1.den
similarityThreshold ==
  [num |-> learnerConfig.similarityThresholdPct * learnerConfig.similarityThresholdPct,
   den |-> 100 * 100]

\* a cosine without the test for a zero norm
cosineUnguarded(a, b) ==
  IF Len(a) # Len(b) THEN ZeroSimilarity
  ELSE [num |-> dot(a, 0, 1, b, Len(a)) * dot(a, 0, 1, b, Len(a)),
        den |-> dot(a, 0, 1, a, Len(a)) * dot(b, 0, 1, b, Len(a))]

\* consolidateMemory() without the sort: the oldest memories stay
consolidateOldest(mem, t) == slice(mem, 0, learnerConfig.episodicMemorySize)

\* cosineSimilarity(a, b)
cosineSimilarity(a, b) ==
  IF Len(a) # Len(b) THEN ZeroSimilarity
  ELSE LET dotProduct == dot(a, 0, 1, b, Len(a))
           normA == dot(a, 0, 1, a, Len(a))
           normB == dot(b, 0, 1, b, Len(a))
       IN  IF normA = 0 \/ normB = 0 THEN ZeroSimilarity
           ELSE [num |-> dotProduct * dotProduct, den |-> normA * normB]

\* findSimilar(input): the index of the best match in the memory, counted
\* from 1, or 0 for null
RECURSIVE findSimilarFrom(_, _, _, _, _)
findSimilarFrom(mem, input, k, bestMatch, bestSimilarity) ==
  IF k > Len(mem) THEN bestMatch
  ELSE LET similarity == cosineSimilarity(input, mem[k].input)
       IN  IF greater(similarity, similarityThreshold)
              /\ greater(similarity, bestSimilarity)
           THEN findSimilarFrom(mem, input, k + 1, k, similarity)
           ELSE findSimilarFrom(mem, input, k + 1, bestMatch, bestSimilarity)

findSimilar(mem, input) == findSimilarFrom(mem, input, 1, 0, ZeroSimilarity)

\* Math.log(n), in tenths
logTenths(n) ==
  CASE n <= 1 -> 0
    [] n = 2 -> 7
    [] n = 3 -> 11
    [] n = 4 -> 14
    [] n = 5 -> 16
    [] OTHER -> 18

\* the score of a memory in consolidateMemory, as the fraction num / den:
\* importance * Math.log(accessCount + 1) * (1.0 / (Date.now() - lastAccessed + 1))
score(memory, t) ==
  [num |-> memory.importance * logTenths(memory.accessCount + 1),
   den |-> t - memory.lastAccessed + 1]

\* the memories sorted by descending score; Array.prototype.sort is stable
RECURSIVE insertByScore(_, _, _)
insertByScore(sorted, memory, t) ==
  IF sorted = << >> THEN <<memory>>
  ELSE IF greater(score(memory, t), score(Head(sorted), t))
       THEN <<memory>> \o sorted
       ELSE <<Head(sorted)>> \o insertByScore(Tail(sorted), memory, t)

RECURSIVE sortByScore(_, _)
sortByScore(mem, t) ==
  IF mem = << >> THEN << >>
  ELSE insertByScore(sortByScore(SubSeq(mem, 1, Len(mem) - 1), t),
                     mem[Len(mem)], t)

\* consolidateMemory()
consolidateMemory(mem, t) ==
  slice(sortByScore(mem, t), 0, learnerConfig.episodicMemorySize)

\* importance is kept in units of 1/1000, so that importance *= 1.1 is
\* exact for the first three recalls of a memory
initialImportance == 1000

\* a recall that also counts as a new experience: the timestamp of the
\* memory is refreshed with the rest
recallHitRetimed(memory, t) ==
  [memory EXCEPT !.accessCount = @ + 1,
                 !.lastAccessed = t,
                 !.timestamp = t + 1,
                 !.importance = (@ * 11) \div 10]

\* the matched memory after a recall at the time t: similar.accessCount++,
\* similar.lastAccessed = Date.now(), similar.importance *= 1.1
recallHit(memory, t) ==
  [memory EXCEPT !.accessCount = @ + 1,
                 !.lastAccessed = t,
                 !.importance = (@ * 11) \div 10]

\* the memory that learnFast stores for a new experience at the time t
newMemory(example, t) ==
  [id |-> example.id,
   input |-> encodeText(example.input),
   output |-> encodeText(example.output),
   context |-> example.input,
   timestamp |-> t,
   accessCount |-> 1,
   lastAccessed |-> t,
   importance |-> initialImportance]

\* learnFast(example) at the time t: the memory, the number of
\* hebbianLearning calls and the returned value afterwards
learnFastResult(mem, calls, example, t) ==
  LET input == encodeText(example.input)
      similar == findSimilar(mem, input)
  IN  IF similar # 0
      THEN [episodicMemory |->
              [mem EXCEPT ![similar] = recallHit(@, t)],
            hebbianCalls |-> calls,
            learned |-> FALSE, recall |-> TRUE]
      ELSE LET pushed == Append(mem, newMemory(example, t))
           IN  [episodicMemory |->
                  IF Len(pushed) > learnerConfig.episodicMemorySize
                  THEN consolidateMemory(pushed, t)
                  ELSE pushed,
                hebbianCalls |-> calls + 1,
                learned |-> TRUE, recall |-> FALSE]

\* the most recent learnFast call: the example, the returned value and the
\* number of memories before the call
NoLearn == [id |-> 0, learned |-> FALSE, recall |-> FALSE, before |-> 0]

\* learnFast(example)
learnFast(example) ==
  LET r == learnFastResult(episodicMemory, hebbianCalls, example, now)
  IN  /\ r.hebbianCalls <= MaxLearned
      /\ \A k \in 1..Len(r.episodicMemory) :
           r.episodicMemory[k].accessCount <= MaxAccess
      /\ episodicMemory' = r.episodicMemory
      /\ hebbianCalls' = r.hebbianCalls
      /\ lastLearn' = [id |-> example.id, learned |-> r.learned,
                       recall |-> r.recall, before |-> Len(episodicMemory)]

----------------------------------------------------------------------------
(* SimulatedNeuralNetwork *)

\* NeuronConfig as the engine and the fast learner construct it, in
\* thousandths: threshold 1.0, refractoryPeriod 5, leakRate 0.1,
\* synapticStrength 0.5, enableSTDP. The model's network has numNeurons
\* neurons in place of 1000, and a plasticityRate of 0.5 in place of 0.01,
\* with which the bounded runs reach the limits of the weights
numNeurons == 2
threshold == 1000
refractoryPeriod == 5
leakRate == 100
synapticStrength == 500
plasticityRate == 500
enableSTDP == TRUE

\* const stdpWindow = 20; const simulationSteps = 10
stdpWindow == 20
simulationSteps == 10

\* 1.0 and 0.5, the limit of a weight and the level above which an element
\* of an array is active
one == 1000
activeLevel == 500

NeuronIds == 0..(numNeurons - 1)

\* lastSpikeTime: -Infinity
NeverSpiked == -Infinity

\* x * num / den, rounded towards zero
scaled(x, num, den) ==
  IF x >= 0 THEN (x * num) \div den ELSE -(((-x) * num) \div den)

magnitude(x) == IF x < 0 THEN -x ELSE x

\* Math.exp(-k / 10) for 0 <= k < stdpWindow, to three decimals
expTable ==
  <<1000, 905, 819, 741, 670, 607, 549, 497, 449, 407,
    368, 333, 301, 273, 247, 223, 202, 183, 165, 150>>
expNeg(k) == expTable[k + 1]

\* a weight that applySTDP stores as it computed it
unclamped(w) == w

\* Math.max(-1.0, Math.min(1.0, newWeight))
clamp(w) == Max(-one, Min(one, w))

\* Math.random() * 0.1 - 0.05, and (Math.random() - 0.5) * synapticStrength:
\* the ends of the ranges
InitialPotentials == {-50, 49}
InitialWeights == {-(synapticStrength \div 2), (synapticStrength \div 2) - 1}

\* the Float32Arrays handed to forward and hebbianLearning
Activations == {<<1500>>, <<1500, 0>>, <<0, 1500>>}

\* the thresholds handed to pruneConnections: the default 0.1, and 0.3
PruneThresholds == {100, 300}

NoForward == [left |-> 0, inputLen |-> 0]

\* Math.floor(numNeurons / input.length)
neuronsPerInput(len) == numNeurons \div len

\* the first loop of updateNeurons on one neuron, at the time step t
updateNeuron(n, t) ==
  IF t - n.lastSpikeTime < refractoryPeriod
  THEN [n EXCEPT !.isRefractory = TRUE]
  ELSE LET leaked == scaled(n.potential, one - leakRate, one)
       IN  IF leaked >= threshold
           THEN [n EXCEPT !.isRefractory = FALSE,
                          !.potential = 0,
                          !.lastSpikeTime = t]
           ELSE [n EXCEPT !.isRefractory = FALSE,
                          !.potential = leaked]

\* what the neuron `target` receives from the spikes of `sources`
RECURSIVE incoming(_, _, _)
incoming(ns, sources, target) ==
  IF sources = {} THEN 0
  ELSE LET s == CHOOSE x \in sources : TRUE
       IN  (IF target \in DOMAIN ns[s].connections
            THEN ns[s].connections[target] ELSE 0)
             + incoming(ns, sources \ {s}, target)

\* applySTDP on one connection of a neuron that spiked at sourceTime
stdpWeight(weight, sourceTime, targetTime) ==
  LET timeDiff == targetTime - sourceTime
  IN  IF targetTime = NeverSpiked \/ magnitude(timeDiff) >= stdpWindow
      THEN weight
      ELSE clamp(weight +
                 (IF timeDiff > 0
                  THEN scaled(plasticityRate, expNeg(timeDiff), one)
                  ELSE -scaled(plasticityRate, expNeg(-timeDiff), one)))

\* applySTDP(spikes)
applySTDP(ns, spikes) ==
  [i \in NeuronIds |->
     IF i \in spikes
     THEN [ns[i] EXCEPT !.connections =
             [j \in DOMAIN ns[i].connections |->
                stdpWeight(ns[i].connections[j], ns[i].lastSpikeTime,
                           ns[j].lastSpikeTime)]]
     ELSE ns[i]]

\* the spikes propagated through the connections
propagate(ns, spikes) ==
  [i \in NeuronIds |->
     [ns[i] EXCEPT !.potential = @ + incoming(ns, spikes, i)]]

\* updateNeurons(): the neurons, the time step and the spikes afterwards
updateNeuronsAt(ns, t) ==
  LET first == [i \in NeuronIds |-> updateNeuron(ns[i], t)]
      spikes == {i \in NeuronIds : first[i].lastSpikeTime = t}
  IN  [neurons |-> IF enableSTDP
                   THEN applySTDP(propagate(first, spikes), spikes)
                   ELSE propagate(first, spikes),
       timeStep |-> t,
       spikes |-> spikes]
updateNeuronsResult(ns, t) == updateNeuronsAt(ns, t + 1)

\* forward(input) up to its simulation loop: the input added to the
\* potentials of the first neurons
applyInput(ns, input) ==
  [k \in NeuronIds |->
     IF k < Len(input) * neuronsPerInput(Len(input))
     THEN [ns[k] EXCEPT !.potential =
             @ + input[(k \div neuronsPerInput(Len(input))) + 1]]
     ELSE ns[k]]

\* the output that forward reads from the last neurons
readOutput(ns, len) ==
  [i \in 1..len |->
     LET idx == {numNeurons - ((i - 1) * neuronsPerInput(len) + j) - 1 :
                   j \in 0..(neuronsPerInput(len) - 1)} \cap NeuronIds
         RECURSIVE total(_)
         total(s) == IF s = {} THEN 0
                     ELSE LET k == CHOOSE x \in s : TRUE
                          IN  ns[k].potential + total(s \ {k})
     IN  IF idx = {} THEN 0 ELSE total(idx) \div Cardinality(idx)]

\* forward(input) begins
forwardBegins(input) ==
  /\ forwardCall = NoForward
  /\ timeStep + simulationSteps <= MaxTimeStep
  /\ neurons' = applyInput(neurons, input)
  /\ forwardCall' = [left |-> simulationSteps, inputLen |-> Len(input)]
  /\ UNCHANGED <<timeStep, lastSpikes, networkOutput, learningCalls>>

\* one turn of forward's simulation loop, updateNeurons(); the last turn
\* is followed by the reading of the output
updateNeurons ==
  /\ forwardCall.left > 0
  /\ neurons' = updateNeuronsResult(neurons, timeStep).neurons
  /\ timeStep' = timeStep + 1
  /\ lastSpikes' = updateNeuronsResult(neurons, timeStep).spikes
  /\ forwardCall' = IF forwardCall.left = 1 THEN NoForward
                    ELSE [forwardCall EXCEPT !.left = @ - 1]
  /\ networkOutput' =
       IF forwardCall.left = 1
       THEN readOutput(updateNeuronsResult(neurons, timeStep).neurons,
                       forwardCall.inputLen)
       ELSE networkOutput
  /\ UNCHANGED learningCalls

\* the neurons that an array makes active, from the first neuron on
activeInput(input) ==
  {(i - 1) * neuronsPerInput(Len(input)) + j :
     i \in {k \in 1..Len(input) : input[k] > activeLevel},
     j \in 0..(neuronsPerInput(Len(input)) - 1)}

\* the neurons that a target makes active, from the last neuron on; the
\* neurons per element are those of the input
activeTarget(input, target) ==
  {numNeurons - ((i - 1) * neuronsPerInput(Len(input)) + j) - 1 :
     i \in {k \in 1..Len(target) : target[k] > activeLevel},
     j \in 0..(neuronsPerInput(Len(input)) - 1)} \cap Nat

\* source.connections.get(targetId) || 0
weightOrZero(connections, targetId) ==
  IF targetId \in DOMAIN connections THEN connections[targetId] ELSE 0

\* hebbianLearning(input, target) on the neurons
hebbianLearningResult(ns, input, target) ==
  [i \in NeuronIds |->
     IF i \in activeInput(input)
     THEN [ns[i] EXCEPT !.connections =
             [j \in DOMAIN ns[i].connections \cup activeTarget(input, target) |->
                IF j \in activeTarget(input, target)
                THEN Min(one, weightOrZero(ns[i].connections, j) + plasticityRate)
                ELSE ns[i].connections[j]]]
     ELSE ns[i]]

hebbianLearning(input, target) ==
  /\ forwardCall = NoForward
  /\ learningCalls < MaxLearningCalls
  /\ neurons' = hebbianLearningResult(neurons, input, target)
  /\ learningCalls' = learningCalls + 1
  /\ UNCHANGED <<timeStep, forwardCall, lastSpikes, networkOutput>>

\* pruneConnections(threshold) on the neurons
pruneConnectionsResult(ns, limit) ==
  [i \in NeuronIds |->
     [ns[i] EXCEPT !.connections =
        [j \in {k \in DOMAIN ns[i].connections :
                  ~(magnitude(ns[i].connections[k]) < limit)} |->
           ns[i].connections[j]]]]

pruneConnections(limit) ==
  /\ forwardCall = NoForward
  /\ learningCalls < MaxLearningCalls
  /\ neurons' = pruneConnectionsResult(neurons, limit)
  /\ learningCalls' = learningCalls + 1
  /\ UNCHANGED <<timeStep, forwardCall, lastSpikes, networkOutput>>

\* new SimulatedNeuralNetwork(config): initializeNeurons() with the values
\* that Math.random() gives
InitNetwork ==
  /\ neurons \in
       {[i \in NeuronIds |->
           [potential |-> p[i], lastSpikeTime |-> NeverSpiked,
            isRefractory |-> FALSE, connections |-> c[i]]] :
          p \in [NeuronIds -> InitialPotentials],
          c \in {f \in [NeuronIds -> UNION {[T -> InitialWeights] :
                                              T \in SUBSET NeuronIds}] :
                   \A i \in NeuronIds : i \notin DOMAIN f[i]}}
  /\ timeStep = 0
  /\ forwardCall = NoForward
  /\ lastSpikes = {}
  /\ networkOutput = << >>
  /\ learningCalls = 0

----------------------------------------------------------------------------
(* TrainingEngine, one trainBatch call at a time *)

\* TrainingConfig.mode
Modes == {"lora", "full", "hybrid"}

\* TrainingConfig.loraConfig: undefined, or one whose targetModules hold the
\* module that backward names ('layers.0.attention.q', here "m"), or one
\* whose targetModules hold no module of the model
NoLoraConfig == [defined |-> FALSE, targetModules |-> {}]
LoraConfigs ==
  {NoLoraConfig,
   [defined |-> TRUE, targetModules |-> {"m"}],
   [defined |-> TRUE, targetModules |-> {}]}
attentionQ == "m"

\* the hidden size of the model, which is also the length of a row of
\* logits: 4096 in the source
hiddenSize == 1

\* TrainingConfig.learningRate, warmupSteps and maxSteps
defaultSchedule == [learningRate |-> 1, warmupSteps |-> 1, maxSteps |-> 3]
Schedules ==
  [learningRate : {1, 2},
   warmupSteps : 0..MaxScheduleSteps,
   maxSteps : 0..MaxScheduleSteps]

\* fastLearningStats at construction
NoStats == [oneShot |-> 0, recalled |-> 0, traditional |-> 0]

\* a constructor that accepts every mode without a loraConfig
neverThrows(mode, lc) == FALSE

\* the constructor throws 'LoRA config required for LoRA/hybrid mode'
constructorThrows(mode, lc) ==
  mode \in {"lora", "hybrid"} /\ lc = NoLoraConfig

\* the fields of the engine when the constructor returns: the adapter
\* exists in the modes 'lora' and 'hybrid'
newEngine(mode, schedule) ==
  [mode |-> mode,
   loraAdapter |-> mode \in {"lora", "hybrid"},
   learningRate |-> schedule.learningRate,
   warmupSteps |-> schedule.warmupSteps,
   maxSteps |-> schedule.maxSteps,
   step |-> 0,
   metrics |-> << >>,
   fastLearningStats |-> NoStats]

\* initializeLoRALayers(): a layer for every target module of the model
initializeLoRALayers(mode, lc, A) ==
  [n \in ModuleNames |->
     IF mode \in {"lora", "hybrid"} /\ lc # NoLoraConfig
        /\ n \in lc.targetModules
     THEN newLayer(A, hiddenSize, hiddenSize)
     ELSE NoLayer]

\* Math.cos(Math.PI * k / 12) in thousandths, for k in 0..23
cosTwelfths(k) ==
  LET quarter(j) ==
        CASE j = 0 -> 1000 [] j = 1 -> 966 [] j = 2 -> 866 [] j = 3 -> 707
          [] j = 4 -> 500 [] j = 5 -> 259 [] OTHER -> 0
      half(j) == IF j <= 6 THEN quarter(j) ELSE -quarter(12 - j)
  IN  IF k <= 12 THEN half(k) ELSE half(24 - k)

\* a schedule without warmup or decay: the configured rate at every step
constantRate(e) == e.learningRate * 1000

\* getLearningRate() of an engine e, in thousandths of the unit of
\* config.learningRate. In the warmup branch step < warmupSteps, so that
\* warmupSteps is positive. In the cosine branch progress is
\* (step - warmupSteps) / (maxSteps - warmupSteps): with maxSteps equal to
\* warmupSteps it is 0 / 0 = NaN or n / 0 = Infinity, and the cosine of
\* either is NaN; the cosine is even, so that the sign of the divisor
\* does not matter
getLearningRate(e) ==
  IF e.step < e.warmupSteps
  THEN (e.learningRate * 1000 * e.step) \div e.warmupSteps
  ELSE LET n == e.step - e.warmupSteps
           d == IF e.maxSteps >= e.warmupSteps
                THEN e.maxSteps - e.warmupSteps
                ELSE e.warmupSteps - e.maxSteps
       IN  IF d = 0 THEN NaN
           ELSE (e.learningRate * (1000 + cosTwelfths(((12 * n) \div d) % 24)))
                  \div 2

\* the examples handed to trainBatch, with the fields the queue sorts by:
\* those handed to learnFast and one whose output is longer than its input
EngineExamples ==
  {[id |-> e.id, input |-> e.input, output |-> e.output,
    priority |-> MEDIUM, timestamp |-> 1,
    inputLen |-> Len(e.input), outputLen |-> Len(e.output)] :
     e \in LearnExamples \cup {[id |-> 5, input |-> <<98>>, output |-> <<97, 98>>]}}
exampleOf(id) == CHOOSE e \in EngineExamples : e.id = id

\* the batches the host hands to trainBatch, and the examples it queues
EngineBatches ==
  {<< >>, <<exampleOf(1)>>, <<exampleOf(4)>>,
   <<exampleOf(2), exampleOf(2)>>}
QueuedExamples == {exampleOf(5)}

\* the loss of the short-circuit and of an empty batch, 0.01: losses are in
\* hundredths
fastLoss == 1

\* the loss of one position, maxLogit + Math.log(expSum) - logit: the
\* logits of forwardWithCache are all 0, so that it is Math.log(4096)
positionLoss == 832

\* a / n on floats, n a positive count
fdiv(a, n) == IF isFiniteNumber(a) THEN a \div n ELSE a

\* Math.sqrt, rounded down
sqrt(a) ==
  IF ~isFiniteNumber(a) THEN a
  ELSE CHOOSE r \in 0..a : r * r <= a /\ (r + 1) * (r + 1) > a

\* the fast-learning counters after a learnFast call that returned result
countBoth(stats, result) ==
  [stats EXCEPT !.oneShot = IF result.learned THEN @ + 1 ELSE @,
                !.recalled = IF result.learned \/ result.recall THEN @ + 1 ELSE @]

countFast(stats, result) ==
  IF result.learned THEN [stats EXCEPT !.oneShot = @ + 1]
  ELSE IF result.recall THEN [stats EXCEPT !.recalled = @ + 1]
  ELSE stats

\* a step counter that trainBatch leaves as it is
stepKept(e) == e

\* this.step++
stepAfter(e) == [e EXCEPT !.step = @ + 1]

\* the step that updateWeights hands to updateParameters: this.step, which
\* trainBatch increments only after updateWeights has returned
updateWeightsStep(e) == e.step

\* a fast pass that counts a recalled example and keeps it for the
\* traditional pass as well
fastStepRecallRemains(acc, example, result) ==
  [episodicMemory |-> result.episodicMemory,
   hebbianCalls |-> result.hebbianCalls,
   stats |-> countFast(acc.stats, result),
   remaining |-> IF result.learned
                 THEN acc.remaining
                 ELSE Append(acc.remaining, example),
   last |-> [id |-> example.id, learned |-> result.learned,
             recall |-> result.recall,
             before |-> Len(acc.episodicMemory)]]

\* one turn of the loop over the examples that opens trainBatch when the
\* engine has a fast learner, result being what learnFast returned: acc
\* holds the memory, the number of hebbianLearning calls, the counters, the
\* remaining examples and the last learnFast call
fastStep(acc, example, result) ==
  [episodicMemory |-> result.episodicMemory,
   hebbianCalls |-> result.hebbianCalls,
   stats |-> countFast(acc.stats, result),
   remaining |-> IF result.learned \/ result.recall
                 THEN acc.remaining
                 ELSE Append(acc.remaining, example),
   last |-> [id |-> example.id, learned |-> result.learned,
             recall |-> result.recall,
             before |-> Len(acc.episodicMemory)]]

\* the loop itself
RECURSIVE fastPass(_, _, _)
fastPass(acc, examples, t) ==
  IF examples = << >> THEN acc
  ELSE fastPass(fastStep(acc, Head(examples),
                         learnFastResult(acc.episodicMemory, acc.hebbianCalls,
                                         Head(examples), t)),
                Tail(examples), t)

\* a trainBatch that never returns after the fast pass
neverShortCircuit(remainingExamples) == FALSE

\* remainingExamples.length === 0
shortCircuit(remainingExamples) == remainingExamples = << >>

\* computeLoss(logits, targets): logits has a row for every input token
\* and targets an entry for every output token; 0 / 0 is NaN
computeLoss(example) ==
  IF example.outputLen = 0 THEN NaN
  ELSE (positionLoss * Min(example.inputLen, example.outputLen))
         \div example.outputLen

\* computeGradOutput(logits, targets): a row for every position that has
\* both a logit row and a target; a row is softmax - onehot, in units of
\* 1 / hiddenSize, and the character codes of the targets name no column
\* of the row
gradOutputRows(example) == Min(example.inputLen, example.outputLen)
gradOutputRow == [j \in 1..hiddenSize |-> 1]

\* backward(cache, gradOutput): loraAdapter.backward for every row of
\* cache.output, here the first n of them
RECURSIVE backwardRows(_, _)
backwardRows(ls, n) ==
  IF n = 0 THEN ls
  ELSE backwardResult(backwardRows(ls, n - 1), attentionQ,
                      zeros(hiddenSize), gradOutputRow)

\* the gradients of a layer that backward has entered: allocated if they
\* were not
allocateGrads(ls, moduleName) ==
  IF ls[moduleName] = NoLayer \/ ls[moduleName].gradA # NoArray THEN ls
  ELSE [ls EXCEPT ![moduleName] =
          [@ EXCEPT !.gradA = zeros(@.rank * @.inFeatures),
                    !.gradB = zeros(@.outFeatures * @.rank)]]

\* backward throws a TypeError when the adapter has the layer and
\* gradOutput[i] is undefined: lora.ts reads gradOutput[i][...] for every
\* row of cache.output, and there are more rows than targets
backwardThrows(e, ls, example) ==
  /\ e.loraAdapter
  /\ ls[attentionQ] # NoLayer
  /\ example.inputLen > gradOutputRows(example)

\* computeGradientNorm(): over gradA and gradB of every layer
sumSquares(arr) ==
  LET RECURSIVE from(_)
      from(k) == IF k > Len(arr) THEN 0
                 ELSE fadd(fmul(arr[k], arr[k]), from(k + 1))
  IN  from(1)
computeGradientNorm(e, ls) ==
  LET RECURSIVE over(_)
      over(names) ==
        IF names = {} THEN 0
        ELSE LET n == CHOOSE m \in names : TRUE
             IN  IF ls[n] = NoLayer THEN over(names \ {n})
                 ELSE fadd(fadd(sumSquares(ls[n].gradA), sumSquares(ls[n].gradB)),
                           over(names \ {n}))
  IN  IF e.loraAdapter THEN sqrt(over(ModuleNames)) ELSE 0

\* the loop of trainExample calls: acc holds the layers, the traditional
\* counter, totalLoss, totalGradNorm and whether a call threw, which ends
\* the loop
RECURSIVE trainExamples(_, _, _)
trainExamples(e, acc, examples) ==
  IF examples = << >> \/ acc.threw THEN acc
  ELSE LET example == Head(examples)
           throws == backwardThrows(e, acc.layers, example)
           ls == IF ~e.loraAdapter THEN acc.layers
                 ELSE IF throws
                      THEN allocateGrads(
                             backwardRows(acc.layers, gradOutputRows(example)),
                             attentionQ)
                      ELSE backwardRows(acc.layers, example.inputLen)
       IN  trainExamples(e,
             IF throws
             THEN [acc EXCEPT !.layers = ls, !.threw = TRUE]
             ELSE [layers |-> ls,
                   traditional |-> acc.traditional + 1,
                   totalLoss |-> fadd(acc.totalLoss, computeLoss(example)),
                   totalGradNorm |-> fadd(acc.totalGradNorm,
                                          computeGradientNorm(e, ls)),
                   threw |-> FALSE],
             Tail(examples))

\* shouldUpgradeToFull(): the comparison of the mean loss of the last
\* upgradeWindow records with that of the upgradeWindow records before
\* them, once there are upgradeMinRecords records (20 and 100 in the
\* source). improvement = (previousAvgLoss - recentAvgLoss) / previousAvgLoss
\* is NaN when a loss is NaN or both means are 0, and an infinity when only
\* previousAvgLoss is 0; the means are compared as sums, each multiplied
\* by the length of the other window
upgradeWindow == 1
upgradeMinRecords == 3

lossSum(records) ==
  LET RECURSIVE from(_)
      from(k) == IF k > Len(records) THEN 0
                 ELSE fadd(records[k].loss, from(k + 1))
  IN  from(1)

shouldUpgradeToFull(metrics) ==
  IF Len(metrics) < upgradeMinRecords THEN FALSE
  ELSE LET recent == slice(metrics, -upgradeWindow, Len(metrics))
           previous == slice(metrics, -2 * upgradeWindow, -upgradeWindow)
           recentAvgLoss == fmul(lossSum(recent), Len(previous))
           previousAvgLoss == fmul(lossSum(previous), Len(recent))
       IN  IF ~isFiniteNumber(recentAvgLoss) \/ ~isFiniteNumber(previousAvgLoss)
           THEN FALSE
           ELSE IF previousAvgLoss = 0 THEN recentAvgLoss > 0
           ELSE IF previousAvgLoss > 0
                THEN 100 * (previousAvgLoss - recentAvgLoss) < previousAvgLoss
                ELSE 100 * (previousAvgLoss - recentAvgLoss) > previousAvgLoss

\* getFastLearningStats(): fastRatio is the fraction num / den
getFastLearningStats(e) ==
  LET stats == e.fastLearningStats
      total == stats.oneShot + stats.recalled + stats.traditional
      fastCount == stats.oneShot + stats.recalled
  IN  [oneShot |-> stats.oneShot,
       recalled |-> stats.recalled,
       traditional |-> stats.traditional,
       total |-> total,
       fastRatio |-> IF total > 0 THEN [num |-> fastCount, den |-> total]
                     ELSE [num |-> 0, den |-> 1]]

\* the trainBatch call in progress: where it is, who called it (the host
\* or the train() loop), the batch it was given, the examples left to the
\* traditional pass and the parts of trainBatch it has run
NoBatchCall ==
  [pc |-> "idle", caller |-> "none", batch |-> << >>, examples |-> << >>,
   trace |-> << >>]

\* the most recent call to end: the constructor with the mode and whether
\* a loraConfig was given, or trainBatch with the value it returned, the
\* number of examples it was given, the parts of trainBatch it ran and the
\* length of the metrics log before it
NoResult ==
  [step |-> -1, loss |-> -1, learningRate |-> -1, gradNorm |-> -1,
   examplesProcessed |-> -1]
EngineCall(op, mode, hasLoraConfig, outcome, result, passed, trace, before) ==
  [op |-> op, mode |-> mode, hasLoraConfig |-> hasLoraConfig,
   outcome |-> outcome, result |-> result, passed |-> passed,
   trace |-> trace, before |-> before]

\* new TrainingEngine(config, ...): an engine that replaces the host's, or
\* the exception of the constructor, which leaves the host with the engine
\* it had
newTrainingEngine(mode, lc, fast, schedule) ==
  /\ batchCall = NoBatchCall
  /\ IF constructorThrows(mode, lc)
     THEN /\ lastEngineCall' =
               EngineCall("new", mode, lc # NoLoraConfig, "threw", NoResult,
                          0, << >>, 0)
          /\ UNCHANGED <<engine, batchCall, tally, isTraining,
                         enableFastLearning, loraVars, learnerVars>>
     ELSE \E A \in [1..(loraConfig.rank * hiddenSize) -> RandomValues] :
            /\ engine' = newEngine(mode, schedule)
            /\ layers' = initializeLoRALayers(mode, lc, A)
            /\ lastLoraCall' = LoraCall("new", "", << >>, << >>)
            /\ enableFastLearning' = fast
            /\ isTraining' = FALSE
            /\ episodicMemory' = << >>
            /\ hebbianCalls' = 0
            /\ lastLearn' = NoLearn
            /\ tally' = [passed |-> 0, rejected |-> FALSE, lastStep |-> -1]
            /\ lastEngineCall' =
                 EngineCall("new", mode, lc # NoLoraConfig, "constructed",
                            NoResult, 0, << >>, 0)
            /\ UNCHANGED batchCall
  /\ UNCHANGED <<isScheduled, isTrainingActive, lastTrainingTime,
                 trainingCount, inferenceInProgress, pendingChecks, burst,
                 runs, trainLoop, now, lastBurst, queueVars, updaterVars>>

\* what trainBatch does with the outcome fp of its fast pass: the return
\* of the short-circuit, or zeroGrad and the await of the first
\* trainExample. learnFast always reports learned or recall, so that no
\* example remains after the fast pass and metaLearn is never reached
trainBatchAfterFastPass(caller, examples, fp) ==
  LET returns == enableFastLearning /\ shortCircuit(fp.remaining)
      stepped == stepAfter([engine EXCEPT !.fastLearningStats = fp.stats])
      result == [step |-> engine.step,
                 loss |-> fastLoss,
                 learningRate |-> getLearningRate(stepped),
                 gradNorm |-> 0,
                 examplesProcessed |-> Len(examples)]
      trace == IF enableFastLearning THEN <<"fast">> ELSE << >>
  IN  /\ batchCall = NoBatchCall
      /\ engine.step < MaxEngineSteps
      /\ fp.hebbianCalls <= MaxLearned
      /\ \A k \in 1..Len(fp.episodicMemory) :
           fp.episodicMemory[k].accessCount <= MaxAccess
      /\ episodicMemory' = fp.episodicMemory
      /\ hebbianCalls' = fp.hebbianCalls
      /\ lastLearn' = fp.last
      /\ IF returns
         THEN /\ isTraining' = FALSE
              /\ engine' = stepped
              /\ batchCall' =
                   IF caller = "train"
                   THEN [pc |-> "returned", caller |-> caller,
                         batch |-> examples, examples |-> << >>,
                         trace |-> trace]
                   ELSE NoBatchCall
              /\ lastEngineCall' =
                   EngineCall("trainBatch", engine.mode, engine.loraAdapter,
                              "resolved", result, Len(examples), trace,
                              Len(engine.metrics))
              /\ tally' = [tally EXCEPT !.passed = @ + Len(examples),
                                         !.lastStep = result.step]
              /\ UNCHANGED loraVars
         ELSE /\ isTraining' = TRUE
              /\ engine' = [engine EXCEPT !.fastLearningStats = fp.stats]
              /\ layers' = IF engine.loraAdapter THEN zeroGradResult(layers)
                           ELSE layers
              /\ lastLoraCall' =
                   IF engine.loraAdapter
                   THEN LoraCall("zeroGrad", "", << >>, << >>)
                   ELSE lastLoraCall
              /\ batchCall' =
                   [pc |-> "trainExample", caller |-> caller,
                    batch |-> examples, examples |-> fp.remaining,
                    trace |-> trace]
              /\ UNCHANGED <<lastEngineCall, tally>>
      /\ UNCHANGED <<isScheduled, isTrainingActive, lastTrainingTime,
                     trainingCount, inferenceInProgress, pendingChecks,
                     burst, enableFastLearning, runs, trainLoop, now,
                     lastBurst, updaterVars>>

\* trainBatch(examples) up to its first await, or to its return after the
\* fast pass; without a fast learner every example remains
trainBatchBegins(caller, examples) ==
  trainBatchAfterFastPass(
    caller, examples,
    IF enableFastLearning
    THEN fastPass([episodicMemory |-> episodicMemory,
                   hebbianCalls |-> hebbianCalls,
                   stats |-> engine.fastLearningStats,
                   remaining |-> << >>,
                   last |-> lastLearn],
                  examples, now)
    ELSE [episodicMemory |-> episodicMemory,
          hebbianCalls |-> hebbianCalls,
          stats |-> engine.fastLearningStats,
          remaining |-> examples,
          last |-> lastLearn])

\* the host calls trainBatch(examples)
trainBatch(examples) ==
  trainBatchBegins("host", examples) /\ UNCHANGED queueVars

\* one iteration of the loop of train(numSteps) on a queue that is not
\* empty, up to its await of trainBatch
trainIteration ==
  /\ queue # << >>
  /\ trainBatchBegins("train", getBatch(queue, batchSize))
  /\ queue' = sliceReceiver(queue, 0, batchSize)
  /\ returned' = getBatch(queue, batchSize)
  /\ lastCall' = Call("getBatch", 0, batchSize, {})
  /\ UNCHANGED processedIds

\* the rest of trainBatch: the trainExample calls, updateWeights, the step
\* and the metrics record; an exception of trainExample ends the call as
\* it is
trainBatchResumes ==
  LET n == Len(batchCall.examples)
      t == trainExamples(engine,
                         [layers |-> layers,
                          traditional |-> engine.fastLearningStats.traditional,
                          totalLoss |-> 0,
                          totalGradNorm |-> 0,
                          threw |-> FALSE],
                         batchCall.examples)
      avgLoss == IF n > 0 THEN fdiv(t.totalLoss, n) ELSE fastLoss
      avgGradNorm == IF n > 0 THEN fdiv(t.totalGradNorm, n) ELSE 0
      counted == [engine EXCEPT !.fastLearningStats.traditional = t.traditional]
      stepped == stepAfter(counted)
      metrics == [step |-> stepped.step,
                  loss |-> avgLoss,
                  learningRate |-> getLearningRate(stepped),
                  gradNorm |-> avgGradNorm,
                  examplesProcessed |-> n]
      traditional == IF n > 0 THEN <<"traditional">> ELSE << >>
  IN  /\ batchCall.pc = "trainExample"
      /\ IF t.threw
         THEN /\ layers' = t.layers
              /\ engine' = counted
              /\ batchCall' = NoBatchCall
              /\ lastEngineCall' =
                   EngineCall("trainBatch", engine.mode, engine.loraAdapter,
                              "rejected", NoResult, Len(batchCall.batch),
                              batchCall.trace \o traditional,
                              Len(engine.metrics))
              /\ tally' = [tally EXCEPT !.rejected = TRUE]
              /\ UNCHANGED isTraining
         ELSE /\ layers' = IF engine.loraAdapter
                           THEN updateParametersResult(t.layers,
                                                       updateWeightsStep(engine))
                           ELSE t.layers
              /\ engine' = [stepped EXCEPT !.metrics = Append(@, metrics)]
              /\ batchCall' =
                   IF batchCall.caller = "train"
                   THEN [batchCall EXCEPT !.pc = "returned"]
                   ELSE NoBatchCall
              /\ lastEngineCall' =
                   EngineCall("trainBatch", engine.mode, engine.loraAdapter,
                              "resolved", metrics, Len(batchCall.batch),
                              batchCall.trace \o traditional
                                \o <<"update", "emit">>,
                              Len(engine.metrics))
              /\ tally' = [tally EXCEPT !.passed = @ + Len(batchCall.batch),
                                         !.lastStep = metrics.step]
              /\ isTraining' = FALSE
      /\ lastLoraCall' =
           IF engine.loraAdapter
           THEN LoraCall(IF t.threw THEN "backward" ELSE "updateParameters",
                         "", << >>, << >>)
           ELSE lastLoraCall
      /\ UNCHANGED <<isScheduled, isTrainingActive, lastTrainingTime,
                     trainingCount, inferenceInProgress, pendingChecks,
                     burst, enableFastLearning, runs, trainLoop, now,
                     lastBurst, queueVars, updaterVars, learnerVars>>

\* train() after its await of trainBatch: removeBatch of the batch's ids
\* and, in hybrid mode, the upgrade to full fine-tuning
trainContinues ==
  /\ batchCall.pc = "returned"
  /\ queue' = removeBatchResult(queue, processedIds, batchIds(batchCall.batch)).queue
  /\ processedIds' =
       removeBatchResult(queue, processedIds, batchIds(batchCall.batch)).processedIds
  /\ returned' = << >>
  /\ lastCall' = Call("removeBatch", 0, 0,
                      {batchCall.batch[i].id : i \in 1..Len(batchCall.batch)})
  /\ engine' = IF engine.mode = "hybrid" /\ shouldUpgradeToFull(engine.metrics)
               THEN [engine EXCEPT !.mode = "full"]
               ELSE engine
  /\ batchCall' = NoBatchCall
  /\ lastEngineCall' = [lastEngineCall EXCEPT !.op = "train"]
  /\ UNCHANGED <<tally, isScheduled, isTrainingActive, lastTrainingTime,
                 trainingCount, inferenceInProgress, pendingChecks, burst,
                 isTraining, enableFastLearning, runs, trainLoop, now,
                 lastBurst, updaterVars, loraVars, learnerVars>>

----------------------------------------------------------------------------
(* Specifications *)

\* new TrainingQueue()
InitQueue ==
  /\ queue = << >>
  /\ processedIds = {}
  /\ returned = << >>
  /\ lastCall = Call("new", 0, 0, {})

\* new WeightUpdater(initialWeights, config): the constructor takes the
\* initial snapshot
InitUpdater ==
  /\ currentWeights = initialWeights
  /\ config \in InitialConfigs
  /\ snapshots = createSnapshotResult(<< >>, initialWeights, config, NoMetrics)
  /\ updateCount = 0
  /\ lastMetrics = NoMetrics
  /\ lastUpdaterCall = UpdaterCall("new", TRUE, FALSE, 0)
  /\ mark = NoMark

\* new TrainingEngine(config, ...), with or without the fast learner, and
\* new TrainingScheduler(engine, batchManager, weightUpdater): the default
\* config enables background training, so the constructor calls start()
InitScheduler ==
  /\ isScheduled = TRUE
  /\ pendingChecks = 1
  /\ isTrainingActive = FALSE
  /\ lastTrainingTime = 0
  /\ trainingCount = 0
  /\ inferenceInProgress = FALSE
  /\ burst = IdleBurst
  /\ isTraining = FALSE
  /\ enableFastLearning \in BOOLEAN
  /\ runs = [c \in Callers |-> "none"]
  /\ trainLoop = IdleLoop
  /\ now = constructedAt
  /\ lastBurst = NoBurst

\* new LoRAAdapter(config): no layer yet
InitLora ==
  /\ layers = [n \in ModuleNames |-> NoLayer]
  /\ lastLoraCall = LoraCall("new", "", << >>, << >>)

\* new FastLearner(config): nothing remembered yet
InitLearner ==
  /\ episodicMemory = << >>
  /\ hebbianCalls = 0
  /\ lastLearn = NoLearn

\* new TrainingEngine(config, ...) in the mode 'full', which needs no
\* loraConfig and creates no adapter, with one of the schedules
InitEngine ==
  /\ engine \in {newEngine("full", schedule) : schedule \in Schedules}
  /\ batchCall = NoBatchCall
  /\ lastEngineCall =
       EngineCall("new", "full", FALSE, "constructed", NoResult, 0, << >>, 0)
  /\ tally = [passed |-> 0, rejected |-> FALSE, lastStep |-> -1]

\* the constructor's this.currentWeights = initialWeights, which keeps the
\* buffers of the host, and its createSnapshot()
InitRefs ==
  LET none == [buffers |-> [b \in BufferIds |-> NoBuffer],
               weightRefs |-> << >>, snapshotRefs |-> << >>,
               updateCount |-> 0]
      refs == fresh(none, WeightNames)
      constructed ==
        createSnapshotRefs(
          [none EXCEPT
             !.weightRefs = refs,
             !.buffers = [b \in BufferIds |->
                            IF \E n \in WeightNames : refs[n] = b
                            THEN initialWeights[CHOOSE n \in WeightNames :
                                                  refs[n] = b]
                            ELSE NoBuffer]],
          config, NoMetrics)
  IN  /\ buffers = constructed.buffers
      /\ weightRefs = constructed.weightRefs
      /\ snapshotRefs = constructed.snapshotRefs

\* new DataCollector(trainingQueue): no message yet, and the default
\* autoCollect has started the timer
InitCollector ==
  /\ conversationHistory = << >>
  /\ collectIntervalId = TRUE

Init ==
  /\ InitQueue /\ InitUpdater /\ InitScheduler /\ InitLora /\ InitLearner
  /\ InitEngine /\ InitRefs /\ InitCollector /\ InitNetwork

\* the engine of the default schedule
defaultEngine == engine = newEngine("full", defaultSchedule)

\* the network of a host that never calls it: of those that
\* initializeNeurons builds, the one with every potential at the lowest
\* value and no connection
defaultNetwork ==
  \A i \in NeuronIds :
    /\ \A p \in InitialPotentials : neurons[i].potential <= p
    /\ DOMAIN neurons[i].connections = {}

\* a spiking network, with any of the potentials and connections that
\* initializeNeurons builds, beside components that it never calls
InitSimulation ==
  Init /\ enableFastLearning /\ config = initialConfig /\ defaultEngine

\* the queue and the weight updater on their own: the engine, which they
\* never call, is the one with the fast learner
InitComponents ==
  /\ Init /\ enableFastLearning /\ config = initialConfig /\ defaultEngine
  /\ defaultNetwork

\* the scheduler and the engine, with or without the fast learner, around
\* a weight updater of the default configuration
InitHost ==
  Init /\ config = initialConfig /\ defaultEngine /\ defaultNetwork

\* the weight updater on its own, with either configuration
InitWeights ==
  Init /\ enableFastLearning /\ defaultEngine /\ defaultNetwork

\* an engine without the fast learner, with any of the schedules
InitSchedule ==
  Init /\ ~enableFastLearning /\ config = initialConfig /\ defaultNetwork

\* the weight updater's calls that write weights or snapshots, on values
\* and buffers together
NextBuffers ==
  \/ \E n \in WeightNames \cup {UnknownName}, d \in Deltas, a \in Alphas :
       applyUpdateOnBuffers(n, d, a)
         /\ UNCHANGED <<queueVars, schedulerVars, loraVars, learnerVars, engineVars, apartVars>>
  \/ \E u \in UpdateMaps, a \in Alphas :
       applyBatchUpdateOnBuffers(u, a)
         /\ UNCHANGED <<queueVars, schedulerVars, loraVars, learnerVars, engineVars, apartVars>>
  \/ \E n \in WeightNames \cup {UnknownName}, w \in NewWeights :
       replaceWeightOnBuffers(n, w)
         /\ UNCHANGED <<queueVars, schedulerVars, loraVars, learnerVars, engineVars, apartVars>>
  \/ \E m \in Metrics :
       createSnapshotOnBuffers(m)
         /\ UNCHANGED <<queueVars, schedulerVars, loraVars, learnerVars, engineVars, apartVars>>
  \/ \E i \in {NoIndex} \cup (-1..maxSnapshots) :
       rollbackOnBuffers(i)
         /\ UNCHANGED <<queueVars, schedulerVars, loraVars, learnerVars, engineVars, apartVars>>
  \/ \E weights \in Imports :
       importWeightsOnBuffers(weights)
         /\ UNCHANGED <<queueVars, schedulerVars, loraVars, learnerVars, engineVars, apartVars>>

SpecBuffers == InitWeights /\ [][NextBuffers]_vars

\* the chat of a host, the collector's interval timer and the bursts that
\* train on what was collected
NextCollector ==
  /\ UNCHANGED <<updaterVars, schedulerVars, loraVars, learnerVars,
                 engineVars, bufferVars, networkVars>>
  /\ \/ \E message \in Message : logMessage(message)
     \/ collectFromChat
     \/ autoCollect
     \/ startAutoCollect
     \/ stopAutoCollect
     \/ markProcessed

SpecCollector == InitComponents /\ [][NextCollector]_vars

\* the calls of a host on a spiking network
NextNetwork ==
  /\ UNCHANGED <<queueVars, updaterVars, schedulerVars, loraVars,
                 learnerVars, engineVars, bufferVars, collectorVars>>
  /\ \/ \E input \in Activations : forwardBegins(input)
     \/ updateNeurons
     \/ \E input \in Activations, target \in Activations :
          hebbianLearning(input, target)
     \/ \E limit \in PruneThresholds : pruneConnections(limit)

SpecNetwork == InitSimulation /\ [][NextNetwork]_vars

NextQueue ==
  \/ \E example \in TrainingExample : add(example) /\ UNCHANGED <<updaterVars, schedulerVars, loraVars, learnerVars, engineVars, sideVars>>
  \/ \E examples \in Batches : addBatch(examples) /\ UNCHANGED <<updaterVars, schedulerVars, loraVars, learnerVars, engineVars, sideVars>>
  \/ \E size \in 0..MaxBatch : getBatchCall(size) /\ UNCHANGED <<updaterVars, schedulerVars, loraVars, learnerVars, engineVars, sideVars>>
  \/ \E idSeq \in IdSeqs : removeBatch(idSeq) /\ UNCHANGED <<updaterVars, schedulerVars, loraVars, learnerVars, engineVars, sideVars>>
  \/ clear /\ UNCHANGED <<updaterVars, schedulerVars, loraVars, learnerVars, engineVars, sideVars>>
  \/ getNextBatchCall /\ UNCHANGED <<updaterVars, schedulerVars, loraVars, learnerVars, engineVars, sideVars>>
  \/ \E size \in 0..MaxBatch :
       managerGetBatch(size) /\ UNCHANGED <<updaterVars, schedulerVars, loraVars, learnerVars, engineVars, sideVars>>
  \/ filterByQuality(DefaultMinLength) /\ UNCHANGED <<updaterVars, schedulerVars, loraVars, learnerVars, engineVars, sideVars>>

SpecQueue == InitComponents /\ [][NextQueue]_vars

NextWeights ==
  \/ \E n \in WeightNames \cup {UnknownName}, d \in Deltas, a \in Alphas :
       applyUpdate(n, d, a) /\ UNCHANGED <<queueVars, schedulerVars, loraVars, learnerVars, engineVars, sideVars>>
  \/ \E u \in UpdateMaps, a \in Alphas :
       applyBatchUpdate(u, a) /\ UNCHANGED <<queueVars, schedulerVars, loraVars, learnerVars, engineVars, sideVars>>
  \/ \E n \in WeightNames \cup {UnknownName}, w \in NewWeights :
       replaceWeight(n, w) /\ UNCHANGED <<queueVars, schedulerVars, loraVars, learnerVars, engineVars, sideVars>>
  \/ \E m \in Metrics : createSnapshot(m) /\ UNCHANGED <<queueVars, schedulerVars, loraVars, learnerVars, engineVars, sideVars>>
  \/ \E i \in {NoIndex} \cup (-1..maxSnapshots) :
       rollback(i) /\ UNCHANGED <<queueVars, schedulerVars, loraVars, learnerVars, engineVars, sideVars>>
  \/ \E m \in CurrentMetrics :
       shouldRollbackCall(m) /\ UNCHANGED <<queueVars, schedulerVars, loraVars, learnerVars, engineVars, sideVars>>
  \/ clearOldSnapshots /\ UNCHANGED <<queueVars, schedulerVars, loraVars, learnerVars, engineVars, sideVars>>
  \/ \E weights \in Imports :
       importWeights(weights) /\ UNCHANGED <<queueVars, schedulerVars, loraVars, learnerVars, engineVars, sideVars>>
  \/ \E partial \in PartialConfigs :
       updateConfig(partial) /\ UNCHANGED <<queueVars, schedulerVars, loraVars, learnerVars, engineVars, sideVars>>

SpecWeights == InitWeights /\ [][NextWeights]_vars

NextScheduler ==
  /\ UNCHANGED <<loraVars, learnerVars, engineVars, sideVars>>
  /\ \/ start
     \/ stop
     \/ \E enable \in BOOLEAN : schedulerUpdateConfig(enable)
     \/ \E enoughIdle \in BOOLEAN : check(enoughIdle)
     \/ forceTraining
     \/ \E inProgress \in BOOLEAN : setInferenceInProgress(inProgress)
     \/ \E outcome \in {"resolved", "rejected"}, loss \in Losses :
          performTrainingResumes(outcome, loss)
     \/ \E numSteps \in 1..MaxSteps : train(numSteps)
     \/ trainWakes
     \/ \E outcome \in {"resolved", "rejected"} : trainResumes(outcome)
     \/ \E example \in ChatExamples : enqueue(example)
     \/ tick

SpecScheduler == InitHost /\ [][NextScheduler]_vars

\* the scheduler's bursts alone, on a queue the host adds to
NextBursts ==
  /\ UNCHANGED <<loraVars, learnerVars, engineVars, sideVars>>
  /\ \/ \E enoughIdle \in BOOLEAN : check(enoughIdle)
     \/ forceTraining
     \/ \E outcome \in {"resolved", "rejected"}, loss \in Losses :
          performTrainingResumes(outcome, loss)
     \/ \E example \in BurstExamples : enqueue(example)
     \/ tick

SpecBursts == InitHost /\ [][NextBursts]_vars

\* what the host has added to the queue before the scheduler's first check
QueuedBatches ==
  {<< >>} \cup {<<e>> : e \in BurstExamples}
          \cup {<<e, f>> : e \in BurstExamples, f \in BurstExamples}

\* the scheduler, started by its constructor, on a queue that the host has
\* filled and adds no more to
InitDrain ==
  /\ queue \in {addBatchResult(<< >>, {}, b).queue : b \in QueuedBatches}
  /\ processedIds = {}
  /\ returned = << >>
  /\ lastCall = Call("new", 0, 0, {})
  /\ InitUpdater /\ InitScheduler /\ InitLora /\ InitLearner
  /\ InitEngine /\ InitRefs /\ InitCollector /\ InitNetwork
  /\ config = initialConfig /\ defaultEngine /\ defaultNetwork

NextDrain ==
  /\ UNCHANGED <<loraVars, learnerVars, engineVars, sideVars>>
  /\ \/ \E enoughIdle \in BOOLEAN : check(enoughIdle)
     \/ \E outcome \in {"resolved", "rejected"}, loss \in Losses :
          performTrainingResumes(outcome, loss)
     \/ \E inProgress \in BOOLEAN : setInferenceInProgress(inProgress)
     \/ tick

\* the host's timer or idle callback runs a pending check with enough idle
\* time whenever one stays due, and an awaited trainBatch call ends
SpecDrain ==
  /\ InitDrain /\ [][NextDrain]_vars
  /\ WF_vars(/\ check(TRUE)
             /\ UNCHANGED <<loraVars, learnerVars, engineVars, sideVars>>)
  /\ WF_vars(/\ \E outcome \in {"resolved", "rejected"}, loss \in Losses :
                  performTrainingResumes(outcome, loss)
             /\ UNCHANGED <<loraVars, learnerVars, engineVars, sideVars>>)

NextLora ==
  \/ \E n \in Initialized, inFeatures \in 1..MaxFeatures,
         outFeatures \in 1..MaxFeatures :
       initializeLayer(n, inFeatures, outFeatures)
         /\ UNCHANGED <<queueVars, updaterVars, schedulerVars, learnerVars, engineVars, sideVars>>
  \/ \E n \in ModuleNames, x \in Inputs, baseOutput \in BaseOutputs :
       shaped(layers, n, x, baseOutput) /\ forward(n, x, baseOutput)
         /\ UNCHANGED <<queueVars, updaterVars, schedulerVars, learnerVars, engineVars, sideVars>>
  \/ \E n \in ModuleNames, x \in Inputs, gradOutput \in GradOutputs :
       shaped(layers, n, x, gradOutput) /\ backward(n, x, gradOutput)
         /\ UNCHANGED <<queueVars, updaterVars, schedulerVars, learnerVars, engineVars, sideVars>>
  \/ \E step \in AdamSteps :
       updateParameters(step) /\ UNCHANGED <<queueVars, updaterVars, schedulerVars, learnerVars, engineVars, sideVars>>
  \/ zeroGrad /\ UNCHANGED <<queueVars, updaterVars, schedulerVars, learnerVars, engineVars, sideVars>>

SpecLora == InitComponents /\ [][NextLora]_vars

NextLearner ==
  \/ \E example \in LearnExamples :
       learnFast(example)
         /\ UNCHANGED <<queueVars, updaterVars, schedulerVars, loraVars, engineVars, sideVars>>
  \/ tick /\ UNCHANGED <<loraVars, learnerVars, engineVars, sideVars>>

SpecLearner == InitComponents /\ [][NextLearner]_vars

\* the resources the engine looks up by name: the weights of the updater
\* and the layers of the adapter
NextResources ==
  \/ \E n \in WeightNames \cup {UnknownName}, d \in Deltas, a \in Alphas :
       applyUpdate(n, d, a) /\ UNCHANGED <<queueVars, schedulerVars, loraVars, learnerVars, engineVars, sideVars>>
  \/ \E n \in Initialized, inFeatures \in 1..MaxFeatures,
         outFeatures \in 1..MaxFeatures :
       initializeLayer(n, inFeatures, outFeatures)
         /\ UNCHANGED <<queueVars, updaterVars, schedulerVars, learnerVars, engineVars, sideVars>>
  \/ \E n \in ModuleNames, x \in Inputs, baseOutput \in BaseOutputs :
       shaped(layers, n, x, baseOutput) /\ forward(n, x, baseOutput)
         /\ UNCHANGED <<queueVars, updaterVars, schedulerVars, learnerVars, engineVars, sideVars>>
  \/ \E n \in ModuleNames, x \in Inputs, gradOutput \in GradOutputs :
       shaped(layers, n, x, gradOutput) /\ backward(n, x, gradOutput)
         /\ UNCHANGED <<queueVars, updaterVars, schedulerVars, learnerVars, engineVars, sideVars>>

SpecResources == InitComponents /\ [][NextResources]_vars

\* the engine: its constructor, trainBatch called by the host, and the
\* train() loop on the queue the host adds to
NextEngine ==
  \/ \E mode \in Modes, lc \in LoraConfigs, fast \in BOOLEAN :
       newTrainingEngine(mode, lc, fast, defaultSchedule) /\ UNCHANGED sideVars
  \/ \E examples \in EngineBatches : trainBatch(examples) /\ UNCHANGED sideVars
  \/ trainBatchResumes /\ UNCHANGED sideVars
  \/ \E example \in QueuedExamples :
       add(example) /\ UNCHANGED <<updaterVars, schedulerVars, loraVars, learnerVars, engineVars, sideVars>>
  \/ trainIteration /\ UNCHANGED sideVars
  \/ trainContinues /\ UNCHANGED sideVars

SpecEngine == InitComponents /\ [][NextEngine]_vars

\* trainBatch calls on engines of every schedule
NextSchedule ==
  \/ \E examples \in EngineBatches : trainBatch(examples) /\ UNCHANGED sideVars
  \/ trainBatchResumes /\ UNCHANGED sideVars

SpecSchedule == InitSchedule /\ [][NextSchedule]_vars

----------------------------------------------------------------------------
(* Properties of the queue *)

\* s without its k-th element
RemoveAt(s, k) == SubSeq(s, 1, k - 1) \o SubSeq(s, k + 1, Len(s))

\* s is in the order of sortByPriority: priority descending, and timestamp
\* descending within a priority
IsSorted(s) ==
  \A i, j \in 1..Len(s) :
    i < j => \/ s[i].priority > s[j].priority
             \/ s[i].priority = s[j].priority /\ s[i].timestamp >= s[j].timestamp

\* C1: add(example) with the id of an example that is enqueued, or that
\* removeBatch has marked processed, changes neither the queue nor the
\* processed-id set, so the queue never holds two examples with one id.
C1_DuplicateAddIsNoOp ==
  [][/\ (lastCall'.op = "add" /\ lastCall'.id \in ids(queue) \cup processedIds)
          => (queue' = queue /\ processedIds' = processedIds)
     /\ \A i, j \in 1..Len(queue') : i # j => queue'[i].id # queue'[j].id]_vars

\* C2: the queue is always sorted by priority descending, then timestamp
\* descending, and getBatch(n) returns its first min(n, size) examples.
C2_SortedAndGetBatchPrefix ==
  /\ IsSorted(queue)
  /\ lastCall.op = "getBatch"
       => /\ returned = SubSeq(queue, 1, Min(lastCall.size, Len(queue)))
          /\ IsSorted(returned)
          /\ \A i \in 1..Len(returned) : \A j \in (Len(returned) + 1)..Len(queue) :
               compare(returned[i], queue[j]) <= 0

\* C2's case: getBatch(1) on a queue of two has returned the example of
\* higher priority and left the more recent, lower-priority one behind.
C2_Witness ==
  /\ lastCall.op = "getBatch"
  /\ lastCall.size = 1
  /\ Len(queue) = 2
  /\ Len(returned) = 1
  /\ returned[1].priority > queue[2].priority
  /\ returned[1].timestamp < queue[2].timestamp

\* C3: add() of a new id on a full queue evicts exactly one example, one
\* that no other example ranks below, and the evicted id is not marked
\* processed afterwards.
C3_EvictsLowestRanked ==
  [][(/\ lastCall'.op = "add"
      /\ Len(queue) >= maxQueueSize
      /\ \A i, j \in 1..Len(queue) : i # j => queue[i].id # queue[j].id
      /\ lastCall'.id \notin ids(queue) \cup processedIds)
       => \E k \in 1..Len(queue) :
            /\ \A i \in 1..Len(queue) : compare(queue[i], queue[k]) <= 0
            /\ \E m \in 1..Len(queue') :
                 /\ queue'[m].id = lastCall'.id
                 /\ RemoveAt(queue', m) = RemoveAt(queue, k)
            /\ queue[k].id \notin processedIds']_vars

\* C10: removeBatch(ids) removes every enqueued example whose id is in ids
\* and marks all of ids processed; a processed id stays processed until
\* clear(), and until then add and addBatch of an example with such an id
\* change nothing for that id: the queue never holds a processed id, and add
\* of one leaves queue and processed-id set as they were.
C10_RemoveBatchMarksProcessed ==
  [][/\ lastCall'.op = "removeBatch"
          => /\ lastCall'.ids \subseteq processedIds'
             /\ ids(queue') \cap lastCall'.ids = {}
             /\ \A i \in 1..Len(queue) :
                  queue[i].id \notin lastCall'.ids
                    => \E j \in 1..Len(queue') : queue'[j] = queue[i]
     /\ lastCall'.op # "clear"
          => /\ processedIds \subseteq processedIds'
             /\ ids(queue') \cap processedIds = {}
     /\ (lastCall'.op = "add" /\ lastCall'.id \in processedIds)
          => (queue' = queue /\ processedIds' = processedIds)]_vars

\* C10's case: after a removeBatch, add was called with a processed id
\* while another example was enqueued.
C10_Witness ==
  /\ lastCall.op = "add"
  /\ lastCall.id \in processedIds
  /\ queue # << >>

----------------------------------------------------------------------------
(* Properties of the weight updater *)

\* C4 as claimed: after createSnapshot() and any sequence of applyUpdate,
\* applyBatchUpdate and replaceWeight calls, rollback() with no index leaves
\* every weight at its value at that createSnapshot() call.
C4_RollbackRestoresMarked ==
  [][(lastUpdaterCall'.op = "rollback" /\ mark.set)
       => currentWeights' = mark.weights]_vars

\* C4 as amended: after createSnapshot() and any sequence of applyUpdate,
\* applyBatchUpdate and replaceWeight calls, a successful rollback() with no
\* index leaves every weight at its value in the most recent snapshot of the
\* log; that is its value at the createSnapshot() call when no update in
\* between took a snapshot of its own.
C4_RollbackRestoresLatestSnapshot ==
  [][(lastUpdaterCall'.op = "rollback" /\ lastUpdaterCall'.ok /\ mark.set)
       => /\ currentWeights' = snapshots[Len(snapshots)].weights
          /\ ~ mark.auto => currentWeights' = mark.weights]_vars

\* C4's case: rollback() has undone a change of the weights made since the
\* host's createSnapshot().
C4_Witness ==
  /\ lastUpdaterCall.op = "rollback"
  /\ lastUpdaterCall.ok
  /\ lastUpdaterCall.marked
  /\ ~ mark.auto
  /\ currentWeights = mark.weights

\* C17: the snapshot log holds at most maxSnapshots snapshots after any
\* sequence of createSnapshot, applyUpdate, importWeights, rollback,
\* clearOldSnapshots and updateConfig calls.
C17_SnapshotLogBound == Len(snapshots) <= config.maxSnapshots

\* what shouldRollback(current) is to return: the most recent snapshot of
\* the log carries a loss that current.loss exceeds by more than the
\* threshold, or both carry an accuracy and the relative drop exceeds it
baselineOfLog(snaps) ==
  IF snaps = << >> THEN NoMetrics ELSE snaps[Len(snaps)].metrics

degraded(baseline, cfg, current) ==
  /\ baseline # NoMetrics
  /\ current # NoMetrics
  /\ \/ current.loss * 100 > baseline.loss * (100 + cfg.rollbackThresholdPct)
     \/ /\ baseline.accuracy # NoAccuracy
        /\ current.accuracy # NoAccuracy
        /\ (baseline.accuracy - current.accuracy) * 100
             > cfg.rollbackThresholdPct * baseline.accuracy

\* C18: shouldRollback(current) returns true exactly when current is
\* degraded with respect to the most recent snapshot in the log, after any
\* sequence of createSnapshot, applyUpdate, importWeights and rollback(index).
C18_ShouldRollbackAgainstLatestSnapshot ==
  [][lastUpdaterCall'.op = "shouldRollback"
       => (lastUpdaterCall'.ok
             <=> degraded(baselineOfLog(snapshots), config, lastUpdaterCall'.arg))]_vars

\* rollback(index) is to succeed exactly when the log is not empty and the
\* index, if given, is one of 0..count-1
indexInRange(snaps, index) ==
  Len(snaps) > 0 /\ (index = NoIndex \/ index \in 0..(Len(snaps) - 1))

\* C19: rollback(index) returns false when the log is empty or the index is
\* outside 0..count-1, and then leaves the weights, the log and the
\* last-metrics baseline as they were; otherwise it returns true.
C19_RollbackRejectsBadIndex ==
  [][lastUpdaterCall'.op \in {"rollback", "rollbackTo"}
       => /\ lastUpdaterCall'.ok <=> indexInRange(snapshots, lastUpdaterCall'.arg)
          /\ ~ lastUpdaterCall'.ok
               => UNCHANGED <<currentWeights, snapshots, lastMetrics>>]_vars

\* rollback(count) has returned false on a log of two snapshots whose
\* latest differs from the live weights
C19_Witness ==
  /\ lastUpdaterCall.op = "rollbackTo"
  /\ ~ lastUpdaterCall.ok
  /\ Len(snapshots) = 2
  /\ lastUpdaterCall.arg = Len(snapshots)
  /\ currentWeights # snapshots[Len(snapshots)].weights

\* C12: the number of enqueued examples never exceeds the queue capacity,
\* whatever add and addBatch calls have been made.
C12_CapacityBound == Len(queue) <= maxQueueSize

\* an add has left the queue at its capacity
C12_Witness ==
  /\ lastCall.op = "add"
  /\ Len(queue) = maxQueueSize
  /\ lastCall.id \in ids(queue)

\* C13: the processed-id set is size-bounded, the oldest processed ids being
\* evicted first: however many ids removeBatch has marked, the set holds
\* fewer than all the ids there are.
C13_ProcessedIdsBounded == Cardinality(processedIds) < MaxId

\* C11: getBatch(n) is a read: the queue's content and order and the
\* processed-id set are the same after TrainingQueue.getBatch,
\* BatchManager.getNextBatch and BatchManager.getBatch, which sort the copy
\* they return.
C11_GetBatchIsARead ==
  [][lastCall'.op \in {"getBatch", "getNextBatch", "managerGetBatch"}
       => queue' = queue /\ processedIds' = processedIds]_vars

\* getNextBatch has returned the two queued examples, which are still queued
C11_Witness ==
  /\ lastCall.op = "getNextBatch"
  /\ Len(returned) = 2
  /\ queue = returned

----------------------------------------------------------------------------
(* Properties of the LoRA adapter *)

\* C14: immediately after initializeLayer(name, inFeatures, outFeatures),
\* forward(name, x, baseOutput) returns values equal to baseOutput, for
\* every x and baseOutput.
C14_ForwardAfterInitializeIsBase ==
  [][(/\ lastLoraCall.op = "initializeLayer"
      /\ lastLoraCall'.op = "forward"
      /\ lastLoraCall'.name = lastLoraCall.name)
     => lastLoraCall'.output = lastLoraCall'.base]_vars

\* every entry of the array is zero (an undefined array has no entry)
allZero(arr) == \A k \in 1..Len(arr) : arr[k] = 0

\* C15: a backward call and an updateParameters call leave the lengths of
\* A (rank x inFeatures) and B (outFeatures x rank) of every layer as they
\* were, and after updateParameters every entry of every layer's gradA and
\* gradB is zero.
C15_UpdateKeepsShapeAndZeroesGradients ==
  [][lastLoraCall'.op \in {"backward", "updateParameters"} =>
       \A n \in ModuleNames :
         layers[n] # NoLayer =>
           /\ layers'[n] # NoLayer
           /\ Len(layers'[n].A) = Len(layers[n].A)
           /\ Len(layers'[n].A) = layers[n].rank * layers[n].inFeatures
           /\ Len(layers'[n].B) = Len(layers[n].B)
           /\ Len(layers'[n].B) = layers[n].outFeatures * layers[n].rank
           /\ lastLoraCall'.op = "updateParameters" =>
                (allZero(layers'[n].gradA) /\ allZero(layers'[n].gradB))]_vars

\* updateParameters has just applied an Adam update to a layer whose
\* gradients backward had filled: B has left zero and the gradients are
\* allocated
C15_Witness ==
  /\ lastLoraCall.op = "updateParameters"
  /\ layers["m"] # NoLayer
  /\ layers["m"].adamSteps = 1
  /\ layers["m"].gradB # NoArray
  /\ layers["m"].inFeatures = 2
  /\ ~allZero(layers["m"].B)

\* C20: operations on a missing resource are no-ops that return normally:
\* applyUpdate on an unknown weight name changes no weight, no update
\* counter and creates no snapshot; forward for an unregistered module
\* returns baseOutput unchanged; backward for an unregistered module
\* changes no layer's gradients.
C20_MissingResourceIsNoOp ==
  [][/\ (\E d \in Deltas, a \in Alphas : applyUpdate(UnknownName, d, a)) =>
         (/\ lastUpdaterCall'.ok
          /\ UNCHANGED <<currentWeights, updateCount, snapshots>>)
     /\ (lastLoraCall'.op = "forward" /\ layers[lastLoraCall'.name] = NoLayer) =>
         (/\ lastLoraCall'.output = lastLoraCall'.base
          /\ UNCHANGED layers)
     /\ (lastLoraCall'.op = "backward" /\ layers[lastLoraCall'.name] = NoLayer) =>
         (/\ layers'[lastLoraCall'.name] = NoLayer
          /\ \A n \in ModuleNames :
               (layers[n] # NoLayer) =>
                 (/\ layers'[n].gradA = layers[n].gradA
                  /\ layers'[n].gradB = layers[n].gradB))]_vars

\* applyUpdate has only ever been called with an unknown name, and backward
\* has just been called for the unregistered module while the registered
\* one holds non-zero gradients
C20_Witness ==
  /\ lastUpdaterCall.op = "applyUpdate"
  /\ updateCount = 0
  /\ lastLoraCall.op = "backward"
  /\ lastLoraCall.name = "u"
  /\ layers["u"] = NoLayer
  /\ layers["m"] # NoLayer
  /\ ~allZero(layers["m"].gradB)

----------------------------------------------------------------------------
(* Properties of the fast learner *)

\* C16: for every example, learnFast called on it twice in immediate
\* succession returns {learned: true, recall: false} and then
\* {learned: false, recall: true}, and the number of memories grows by
\* exactly 1 over the two calls. The first call is one that found nothing
\* similar in the memory.
C16_LearnThenRecall ==
  [][(/\ lastLearn.learned
      /\ lastLearn'.id = lastLearn.id
      /\ \E example \in LearnExamples : learnFast(example))
     => /\ ~lastLearn.recall
        /\ ~lastLearn'.learned
        /\ lastLearn'.recall
        /\ Len(episodicMemory') = lastLearn.before + 1]_vars

----------------------------------------------------------------------------
(* Properties of the scheduler and the engine *)

\* a training burst starts: performTraining calls trainBatch
BurstStarts == burst.pc = "idle" /\ burst'.pc = "awaiting"

\* C5: at any time at most one trainBatch execution is in flight on the
\* engine, whoever called it: a scheduler check, forceTraining() or the
\* engine's train() loop.
C5_SingleActiveTrainer ==
  Cardinality({caller \in Callers : runs[caller] = "running"}) <= 1

\* C6: while the inference signal is set and pauseOnInference is enabled, no
\* training burst starts, from a periodic check or from forceTraining().
C6_NoBurstDuringInference ==
  [][BurstStarts => ~ (pauseOnInference /\ inferenceInProgress)]_vars

\* C7: once stop() has been called and until start() is called again, no
\* periodic check starts a training burst, a check scheduled before stop()
\* included.
C7_NoCheckBurstAfterStop ==
  [][(BurstStarts /\ burst'.origin = "check") => isScheduled]_vars

\* C8: isTrainingActive is true from the start of a burst until trainBatch
\* and the post-processing have finished, and false once the burst is over,
\* whether it ended with an empty batch, with metrics or with an exception.
C8_ActiveThroughoutBurst == isTrainingActive <=> burst.pc = "awaiting"

\* a burst whose trainBatch threw has ended and the flag is cleared
C8_Witness ==
  /\ lastBurst.outcome = "rejected"
  /\ burst.pc = "idle"
  /\ ~ isTrainingActive

\* C9: a periodic check starts a burst only if at least 1000/maxCPUUsage ms
\* have passed since the end of the previous burst, whatever its outcome.
C9_MinimumSpacing ==
  [][(BurstStarts /\ burst'.origin = "check" /\ lastBurst.end >= 0)
       => now' - lastBurst.end >= minInterval]_vars

\* C27: a burst whose trainBatch resolved removes from the queue exactly
\* the examples with the batch's ids and marks those ids processed; it
\* calls createSnapshot, with the burst's loss and the current weights,
\* exactly when the count of successful bursts has reached a multiple of
\* burstsPerSnapshot; and it calls rollback(), which restores the latest
\* snapshot, exactly when shouldRollback holds of the burst's loss.
C27_BurstProtocol ==
  [][\A loss \in Losses :
       performTrainingResumes("resolved", loss) =>
         LET batchIdSet == {burst.batch[i].id : i \in 1..Len(burst.batch)}
             keep(ex) == ex.id \notin batchIdSet
             due == (trainingCount + 1) % burstsPerSnapshot = 0
             last == IF due THEN burstMetrics(loss) ELSE lastMetrics
             worse == shouldRollback(last, config, burstMetrics(loss))
         IN  /\ queue' = SelectSeq(queue, keep)
             /\ processedIds' = processedIds \cup batchIdSet
             /\ trainingCount' = trainingCount + 1
             /\ lastBurst'.snapshot = due
             /\ due => /\ snapshots'[Len(snapshots')] =
                            [weights |-> currentWeights,
                             metrics |-> burstMetrics(loss)]
                       /\ lastMetrics' = burstMetrics(loss)
             /\ ~due => snapshots' = snapshots
             /\ lastBurst'.rollback = worse
             /\ IF worse
                THEN currentWeights' = snapshots'[Len(snapshots')].weights
                ELSE currentWeights' = currentWeights]_vars

\* the burst after the one that took a snapshot reported a loss more than
\* the threshold above the snapshot's, and rolled back
C27_Witness ==
  /\ lastBurst.outcome = "resolved"
  /\ lastBurst.rollback
  /\ ~lastBurst.snapshot
  /\ trainingCount = burstsPerSnapshot + 1
  /\ lastMetrics.loss = 1

----------------------------------------------------------------------------
(* Properties of the fast learner's memory *)

\* the vectors cosineSimilarity is applied to: the encodings of the texts
\* and vectors of other lengths
Vectors ==
  {encodeText(text) : text \in Texts} \cup {<< >>, <<0>>, <<1>>, <<0, 0, 0>>}
zeroNorm(a) == \A k \in 1..Len(a) : a[k] = 0
inputOf(id) == (CHOOSE e \in LearnExamples : e.id = id).input

\* C26: cosineSimilarity divides by no zero, and returns 0 when a vector has
\* zero norm or the lengths differ; so findSimilar finds no memory for an
\* input that encodes as the zero vector, and learnFast stores such an
\* example as a new memory instead of recalling one.
C26_ZeroNormNeverMatches ==
  /\ \A a \in Vectors, b \in Vectors :
       /\ cosineSimilarity(a, b).den # 0
       /\ (zeroNorm(a) \/ zeroNorm(b) \/ Len(a) # Len(b))
            => cosineSimilarity(a, b) = ZeroSimilarity
  /\ \A text \in Texts :
       zeroNorm(encodeText(text))
         => findSimilar(episodicMemory, encodeText(text)) = 0
  /\ (lastLearn.id # 0 /\ zeroNorm(encodeText(inputOf(lastLearn.id))))
       => (lastLearn.learned /\ ~lastLearn.recall)

\* the example with the empty input was stored although the memory already
\* held a memory of that input
C26_Witness ==
  /\ lastLearn.learned
  /\ zeroNorm(encodeText(inputOf(lastLearn.id)))
  /\ Len(episodicMemory) = 2
  /\ \A k \in 1..2 : zeroNorm(episodicMemory[k].input)

\* how many entries of seq equal x
countIn(seq, x) == Cardinality({i \in 1..Len(seq) : seq[i] = x})

\* kept holds all the entries of pushed but one, and the missing entry has
\* no higher score than any entry of kept
keptTop(pushed, kept, t) ==
  \E d \in 1..Len(pushed) :
    /\ \A i \in 1..Len(pushed) :
         countIn(kept, pushed[i])
           = countIn(pushed, pushed[i]) - (IF pushed[i] = pushed[d] THEN 1 ELSE 0)
    /\ \A k \in 1..Len(kept) :
         ~greater(score(pushed[d], t), score(kept[k], t))

C30_RecallTouchesOnlyTheMatch ==
  [][/\ \A k \in 1..Len(episodicMemory') : episodicMemory'[k].accessCount >= 1
     /\ \A example \in LearnExamples :
          (learnFast(example) /\ lastLearn'.recall) =>
            /\ Len(episodicMemory') = Len(episodicMemory)
            /\ hebbianCalls' = hebbianCalls
            /\ ~lastLearn'.learned
            /\ \E k \in 1..Len(episodicMemory) :
                 /\ episodicMemory'[k] =
                      [episodicMemory[k] EXCEPT
                         !.accessCount = @ + 1,
                         !.lastAccessed = now,
                         !.importance = (@ * 11) \div 10]
                 /\ \A j \in 1..Len(episodicMemory) :
                      j # k => episodicMemory'[j] = episodicMemory[j]]_vars

\* a memory stored earlier has been recalled twice, the second time after
\* time had passed
C30_Witness ==
  /\ lastLearn.recall
  /\ \E k \in 1..Len(episodicMemory) :
       /\ episodicMemory[k].id = lastLearn.id
       /\ episodicMemory[k].accessCount = 3
       /\ episodicMemory[k].lastAccessed = now
       /\ episodicMemory[k].timestamp < now
       /\ episodicMemory[k].importance = 1210

----------------------------------------------------------------------------
(* Properties of the training engine *)

\* C21: the constructor throws exactly when the mode is 'lora' or 'hybrid'
\* and no loraConfig is given, so that the mode 'full' constructs without
\* one, and an engine in the mode 'lora' or 'hybrid' has a LoRA adapter.
C21_LoraModesNeedConfig ==
  /\ engine.mode \in {"lora", "hybrid"} => engine.loraAdapter
  /\ lastEngineCall.op = "new" =>
       /\ lastEngineCall.outcome \in {"threw", "constructed"}
       /\ lastEngineCall.outcome = "threw"
            <=> (lastEngineCall.mode \in {"lora", "hybrid"}
                   /\ ~lastEngineCall.hasLoraConfig)

\* the constructor threw, and the host is left with the engine it had
C21_Witness ==
  /\ lastEngineCall.op = "new"
  /\ lastEngineCall.outcome = "threw"
  /\ lastEngineCall.mode = "hybrid"
  /\ engine.mode = "lora"
  /\ engine.step > 0

\* C22: every trainBatch call ends with the weight update and the metrics
\* record, the traditional pass being the only part it may skip: it has
\* appended exactly one record to the metrics log and left the engine not
\* training.
C22_EveryCallEmitsOneRecord ==
  (lastEngineCall.op \in {"trainBatch", "train"} /\ batchCall.pc # "trainExample")
    => /\ Len(lastEngineCall.trace) >= 2
       /\ SubSeq(lastEngineCall.trace, Len(lastEngineCall.trace) - 1,
                 Len(lastEngineCall.trace)) = <<"update", "emit">>
       /\ Len(engine.metrics) = lastEngineCall.before + 1
       /\ ~isTraining

\* C23: on an engine with the fast learner, where every example is learned
\* or recalled, a trainBatch call returns the loss 0.01, the gradNorm 0 and
\* the length of the batch as examplesProcessed, runs only the fast pass
\* and leaves the LoRA layers as they were: gradients, Adam moments, A and B.
C23_FastPassShortCircuit ==
  [][(/\ enableFastLearning
      /\ \/ \E examples \in EngineBatches : trainBatch(examples)
         \/ trainIteration
         \/ trainBatchResumes
      /\ batchCall'.pc # "trainExample")
     => /\ lastEngineCall'.outcome = "resolved"
        /\ lastEngineCall'.result.loss = fastLoss
        /\ lastEngineCall'.result.gradNorm = 0
        /\ lastEngineCall'.result.examplesProcessed = lastEngineCall'.passed
        /\ lastEngineCall'.trace = <<"fast">>
        /\ layers' = layers]_vars

\* a batch of two examples was served by the fast learner of an engine
\* whose adapter has the layer that backward names
C23_Witness ==
  /\ enableFastLearning
  /\ lastEngineCall.op = "trainBatch"
  /\ lastEngineCall.passed = 2
  /\ lastEngineCall.result.loss = fastLoss
  /\ engine.loraAdapter
  /\ layers[attentionQ] # NoLayer

\* C24: as long as no trainBatch call has thrown, the three counters add up
\* to the number of examples given to trainBatch, and fastRatio is
\* (oneShot + recalled) / total, or 0 when there was no example.
C24_CountersAddUp ==
  ~tally.rejected =>
    LET stats == getFastLearningStats(engine)
    IN  /\ stats.oneShot + stats.recalled + stats.traditional = tally.passed
        /\ stats.total = tally.passed
        /\ stats.fastRatio =
             IF tally.passed = 0 THEN [num |-> 0, den |-> 1]
             ELSE [num |-> stats.oneShot + stats.recalled,
                   den |-> tally.passed]

\* examples have been learned at once and others recalled
C24_Witness ==
  /\ ~tally.rejected
  /\ engine.fastLearningStats.oneShot >= 2
  /\ engine.fastLearningStats.recalled >= 2
  /\ tally.passed >= 4

\* the learning rate of the engine e at the step s, the peak rate, and a
\* rate above the peak
rateAt(e, s) == getLearningRate([e EXCEPT !.step = s])
peakRate(e) == e.learningRate * 1000
exceeds(rate, peak) == ~isNaN(rate) /\ rate > peak

\* the rate is 0 at step 0, the peak at warmupSteps, 0 at maxSteps and
\* never above the peak, for the steps of the model and for the records of
\* the metrics log
endpoints(e) ==
  /\ rateAt(e, 0) = 0
  /\ rateAt(e, e.warmupSteps) = peakRate(e)
  /\ rateAt(e, e.maxSteps) = 0
  /\ \A s \in 0..(MaxEngineSteps + MaxScheduleSteps) :
       ~exceeds(rateAt(e, s), peakRate(e))
  /\ \A k \in 1..Len(e.metrics) :
       /\ ~exceeds(e.metrics[k].learningRate, peakRate(e))
       /\ e.metrics[k].step = e.warmupSteps
            => e.metrics[k].learningRate = peakRate(e)
       /\ e.metrics[k].step = e.maxSteps => e.metrics[k].learningRate = 0

C28_HybridUpgrade ==
  (/\ lastEngineCall.op \in {"trainBatch", "train"}
   /\ lastEngineCall.outcome = "resolved"
   /\ lastEngineCall.mode = "hybrid"
   /\ batchCall = NoBatchCall)
    => IF Len(engine.metrics) < upgradeMinRecords
       THEN engine.mode = "hybrid"
       ELSE shouldUpgradeToFull(engine.metrics) => engine.mode = "full"

----------------------------------------------------------------------------
(* Properties of the weight updater's buffers *)

\* the snapshots as values, read through their buffers
snapshotValues(heap, snapRefs) ==
  [i \in 1..Len(snapRefs) |->
     [weights |-> deref(heap, snapRefs[i].weights),
      metrics |-> snapRefs[i].metrics]]

\* C33: no call changes the contents of a buffer of a snapshot that stays
\* in the log; no snapshot shares a buffer with the live weights or with
\* another snapshot, also after a rollback; a successful rollback leaves
\* the live weights equal to the snapshot's, which it leaves as it was, so
\* that a second rollback to it restores the same values.
C33_SnapshotsAreImmutable ==
  [][/\ \A b \in snapshotBuffers(snapshotRefs) \cap snapshotBuffers(snapshotRefs') :
          buffers'[b] = buffers[b]
     /\ \A n \in DOMAIN weightRefs' :
          weightRefs'[n] \notin snapshotBuffers(snapshotRefs')
     /\ \A i \in 1..Len(snapshotRefs'), j \in 1..Len(snapshotRefs') :
          \A n \in DOMAIN snapshotRefs'[i].weights,
             m \in DOMAIN snapshotRefs'[j].weights :
            (i # j \/ n # m)
              => snapshotRefs'[i].weights[n] # snapshotRefs'[j].weights[m]
     /\ snapshotValues(buffers', snapshotRefs') = snapshots'
     /\ deref(buffers', weightRefs') = currentWeights'
     /\ \A i \in {NoIndex} \cup (-1..maxSnapshots) :
          (rollbackOnBuffers(i) /\ rollbackOk(snapshotRefs, i))
            => /\ snapshotRefs' = snapshotRefs
               /\ deref(buffers', weightRefs')
                    = deref(buffers,
                            snapshotRefs[targetIndex(snapshotRefs, i) + 1].weights)]_vars

\* a rollback to the older of two snapshots after the weights had moved
\* away from both: the live weights hold its values and the newer snapshot
\* still holds others
C33_Witness ==
  /\ lastUpdaterCall.op = "rollbackTo"
  /\ lastUpdaterCall.ok
  /\ lastUpdaterCall.arg = 0
  /\ Len(snapshotRefs) = 2
  /\ updateCount >= 3
  /\ deref(buffers, weightRefs) = deref(buffers, snapshotRefs[1].weights)
  /\ deref(buffers, weightRefs) # deref(buffers, snapshotRefs[2].weights)
  /\ deref(buffers, snapshotRefs[1].weights) # initialWeights

----------------------------------------------------------------------------
(* Properties of the engine's step counter and of its fast pass *)

\* a trainBatch call, of the host or of train(), begins in this step
trainBatchStarts ==
  \/ \E examples \in EngineBatches : trainBatch(examples)
  \/ trainIteration

\* a trainBatch call returns its metrics in this step
trainBatchReturned ==
  /\ trainBatchStarts \/ trainBatchResumes
  /\ batchCall'.pc # "trainExample"
  /\ lastEngineCall'.op = "trainBatch"
  /\ lastEngineCall'.outcome = "resolved"

C36_AdamStepAtLeastOne ==
  [][(/\ trainBatchResumes
      /\ engine.loraAdapter
      /\ lastLoraCall'.op = "updateParameters")
     => updateWeightsStep(engine) >= 1]_vars

----------------------------------------------------------------------------
(* Properties of the scheduler's checks and of its bursts *)

\* the checks that have begun and await their burst
runningChecks ==
  IF burst.pc = "awaiting" /\ burst.origin = "check" THEN 1 ELSE 0

\* C37: at most one periodic check is pending or running at any time.
C37_AtMostOneCheck == pendingChecks + runningChecks <= 1

\* C38: a burst whose trainBatch call throws leaves the queue, the
\* processed ids, trainingCount, lastTrainingTime, the snapshots and the
\* weights as they were, calls neither createSnapshot nor rollback, and
\* clears isTrainingActive.
C38_ThrowIsContained ==
  [][\A loss \in Losses :
       performTrainingResumes("rejected", loss)
         => /\ queue' = queue
            /\ processedIds' = processedIds
            /\ getNextBatch(queue') # << >>
            /\ trainingCount' = trainingCount
            /\ lastTrainingTime' = lastTrainingTime
            /\ snapshots' = snapshots
            /\ currentWeights' = currentWeights
            /\ lastMetrics' = lastMetrics
            /\ lastBurst'.outcome = "rejected"
            /\ ~lastBurst'.snapshot
            /\ ~lastBurst'.rollback
            /\ ~isTrainingActive']_vars

\* after a burst that trained, a burst has thrown: its batch is still
\* queued and the scheduler is free for the next burst
C38_Witness ==
  /\ lastBurst.outcome = "rejected"
  /\ trainingCount >= 1
  /\ queue # << >>
  /\ ~isTrainingActive
  /\ burst = IdleBurst

\* C40: on a started scheduler whose host adds no more examples, if the
\* inference signal is cleared from some time on, the queue becomes empty.
C40_QueueDrains ==
  <>[](~inferenceInProgress) => <>(queue = << >>)

----------------------------------------------------------------------------
(* Properties of the chat collection *)

\* C34: no two examples of the queue have the same id, and no example of
\* the queue has been processed, however often collectFromChat runs.
C34_ChatPairsQueuedOnce ==
  /\ \A i, j \in 1..Len(queue) : i # j => queue[i].id # queue[j].id
  /\ \A i \in 1..Len(queue) : queue[i].id \notin processedIds

----------------------------------------------------------------------------
(* Properties of the spiking network *)

\* every weight of the connections is within [-1, 1]
weightsWithin(ns) ==
  \A i \in NeuronIds :
    \A j \in DOMAIN ns[i].connections :
      ns[i].connections[j] >= -one /\ ns[i].connections[j] <= one

\* C31: in a simulation step the potential of every neuron leaks, also
\* that of a neuron within refractoryPeriod steps of its last spike, which
\* does not spike; a neuron that spikes has not spiked in the
\* refractoryPeriod steps before, and its potential is 0 when the spikes
\* are propagated.
C31_LeakBeforeRefractory ==
  [][updateNeurons
     => \A i \in NeuronIds :
          LET leaked == scaled(neurons[i].potential, one - leakRate, one)
              received == incoming(neurons, lastSpikes', i)
          IN  /\ i \notin lastSpikes'
                   => neurons'[i].potential = leaked + received
              /\ timeStep' - neurons[i].lastSpikeTime < refractoryPeriod
                   => i \notin lastSpikes'
              /\ i \in lastSpikes'
                   => /\ neurons'[i].lastSpikeTime = timeStep'
                      /\ neurons'[i].potential = received]_vars

\* C32: every weight is within [-1, 1] before and after every call;
\* hebbianLearning leaves the weight of every pair of an active input
\* neuron and an active target neuron at the old weight, or 0, plus
\* plasticityRate, and at 1 at most; pruneConnections(threshold) leaves
\* the connections whose magnitude is not below the threshold, as they
\* were.
C32_WeightsWithinLimits ==
  [][/\ weightsWithin(neurons)
     /\ weightsWithin(neurons')
     /\ \A input \in Activations, target \in Activations :
          hebbianLearning(input, target)
            => \A i \in activeInput(input), j \in activeTarget(input, target) :
                 /\ j \in DOMAIN neurons'[i].connections
                 /\ neurons'[i].connections[j] =
                      Min(one, weightOrZero(neurons[i].connections, j)
                                 + plasticityRate)
     /\ \A limit \in PruneThresholds :
          pruneConnections(limit)
            => \A i \in NeuronIds :
                 /\ DOMAIN neurons'[i].connections =
                      {j \in DOMAIN neurons[i].connections :
                         magnitude(neurons[i].connections[j]) >= limit}
                 /\ \A j \in DOMAIN neurons'[i].connections :
                      /\ magnitude(neurons'[i].connections[j]) >= limit
                      /\ neurons'[i].connections[j] = neurons[i].connections[j]]_vars

\* after two hebbianLearning calls neuron 0 has spiked a second time in a
\* forward call, and applySTDP has left its connection to neuron 1 at the
\* lower limit
C32_Witness ==
  /\ learningCalls >= 2
  /\ timeStep > refractoryPeriod
  /\ 0 \in lastSpikes
  /\ 1 \in DOMAIN neurons[0].connections
  /\ neurons[0].connections[1] = -one

============================================================================
